---- MODULE Spec2Model ----
(***************************************************************************)
(* Meal batching: the in-memory service (InMemoryMealBatchingService) and  *)
(* the database-backed service (MealBatchingService) driven side by side   *)
(* by the same operations, the same arguments and the same collaborator    *)
(* responses.                                                              *)
(*                                                                         *)
(* Numbers: every nutrient amount (grams, protein_g, carb_g, fat_g, kcal   *)
(* and the declared totals) is an integer count of tenths, so 0.1 g is 1   *)
(* and 1 kcal is 10.                                                       *)
(* Dates: an ISO date string "2024-01-DD" is the integer DD; the string    *)
(* order of such dates is the integer order.                               *)
(* Optional values: None is the empty sequence, a present value x is <<x>>.*)
(* A target_date of None stands for today's date, which is one of Dates.    *)
(* clear_all is the tests' teardown and is no operation of a run.          *)
(* Under Spec a call is one atomic step. Under SpecSessions two            *)
(* MealBatchingService instances, each with a database session of its own, *)
(* run calls that overlap between their reads and their commit. Under      *)
(* SpecHelpers the helper functions (_safe_json_extract, the three         *)
(* _validate_consistency, DayNutrition.model_validate) are applied on      *)
(* their own to sample arguments.                                          *)
(* Under SpecStub both services run with StubNutritionLLM as collaborator. *)
(* Under SpecStm add_turn of memory/stm.py is called on its own, and under *)
(* SpecChat Orchestrator.respond runs chat requests over the database      *)
(* service and the turn buffer.                                            *)
(* Text: a string is the sequence of its tokens (a brace, a bracket, a     *)
(* comma, a colon, a code fence, a run of white space, a word, a JSON      *)
(* string or number literal); no literal holds a brace or a fence.         *)
(***************************************************************************)
EXTENDS Integers, Sequences, FiniteSets, TLC

VARIABLES
    day_inputs,                \* InMemory: (user, date) -> list of raw texts
    day_results,               \* InMemory: (user, date) -> DayNutrition or None
    edit_counts,               \* InMemory: (user, date) -> int
    raw_meal_inputs,           \* table raw_meal_inputs, rows in id order
    daily_nutrition_summaries, \* table daily_nutrition_summaries, rows in id order
    call,                      \* the operation called last and its arguments
    memRet,                    \* what the in-memory service returned or raised
    dbRet,                     \* what the database service returned or raised
    audit,                     \* per key and service: the number of edit calls that
                               \* returned normally, and the record the 2nd of them stored;
                               \* per key: the ids the in-memory log_quick_meal returned
    sessions,                  \* per MealBatchingService instance: the call it is in
                               \* and the rows its session has loaded
    applied,                   \* the helper function applied last on its own, with
                               \* its argument and its result
    STORE,                     \* stm._STORE: user_id -> the deque of (role, content)
    added,                     \* per user: every turn add_turn was called with, in order
    messages,                  \* table messages, rows in id order
    chatRet                    \* the request respond was called with last and the
                               \* ChatResponse it returned, or what it raised

vars == <<day_inputs, day_results, edit_counts, raw_meal_inputs,
          daily_nutrition_summaries, call, memRet, dbRet, audit, sessions, applied,
          STORE, added, messages, chatRet>>

\* the state of the chat side: the turn buffer, the messages table, the response
chatVars == <<STORE, added, messages, chatRet>>

-----------------------------------------------------------------------------
(* Bounds and input sets *)

MaxLogs == 2          \* log calls in one run (rows of raw_meal_inputs)

Users == {"u1", "u2"}
Dates == {15, 16}
\* two dates of one user, and one of these dates for another user
Keys == {<<"u1", 15>>, <<"u1", 16>>, <<"u2", 15>>}
Texts == {"breakfast: eggs", "lunch: chicken and rice"}
Limits == {1, 7}      \* the days argument of get_meal_history (7 is its default)
\* MealBatchingService() instances alive at the same time (one per request)
Sessions == {"s1", "s2"}

None == <<>>
Some(x) == <<x>>

-----------------------------------------------------------------------------
(* schemas/nutrition.py *)

MealItem(n, g, p, c, f, k) ==
    [name |-> n, grams |-> g, protein_g |-> p, carb_g |-> c, fat_g |-> f, kcal |-> k]

Meal(n, its) == [name |-> n, items |-> its]

DayNutrition(ms, tp, tc, tf, tk) ==
    [meals |-> ms, total_protein_g |-> tp, total_carb_g |-> tc,
     total_fat_g |-> tf, total_kcal |-> tk]

Abs(x) == IF x < 0 THEN -x ELSE x

Max(a, b) == IF a >= b THEN a ELSE b

RECURSIVE SumItems(_, _)
\* sum(item.<field> for item in items)
SumItems(items, field) ==
    IF items = <<>> THEN 0
    ELSE Head(items)[field] + SumItems(Tail(items), field)

RECURSIVE SumMeals(_, _)
\* sum(item.<field> for meal in meals for item in meal.items)
SumMeals(meals, field) ==
    IF meals = <<>> THEN 0
    ELSE SumItems(Head(meals).items, field) + SumMeals(Tail(meals), field)

\* MealItem's field constraints: grams gt 0, the nutrients ge 0 (name: any str)
MealItemFieldsOk(it) ==
    /\ it.grams > 0
    /\ it.protein_g >= 0
    /\ it.carb_g >= 0
    /\ it.fat_g >= 0
    /\ it.kcal >= 0

\* Meal's field constraints: items has min_length 1, every item validates
MealFieldsOk(m) ==
    /\ Len(m.items) >= 1
    /\ \A i \in 1..Len(m.items) : MealItemFieldsOk(m.items[i])

\* DayNutrition's field constraints: meals has min_length 1, totals ge 0
DayFieldsOk(day) ==
    /\ Len(day.meals) >= 1
    /\ \A i \in 1..Len(day.meals) : MealFieldsOk(day.meals[i])
    /\ day.total_protein_g >= 0
    /\ day.total_carb_g >= 0
    /\ day.total_fat_g >= 0
    /\ day.total_kcal >= 0

\* the pairs of amounts up to 3.0 g, one tenth apart, whose difference as doubles
\* is above the double 0.1 (1.1 - 1.0 is 0.10000000000000009, while 0.3 - 0.2 is
\* 0.09999999999999998)
TenthApartOver ==
    {<<3, 4>>, <<7, 8>>, <<10, 11>>, <<12, 13>>, <<14, 15>>, <<15, 16>>, <<17, 18>>,
     <<19, 20>>, <<20, 21>>, <<21, 22>>, <<23, 24>>, <<24, 25>>, <<25, 26>>,
     <<26, 27>>, <<28, 29>>, <<29, 30>>}

\* abs(a - b) > 0.1 on doubles, a and b in tenths
OverTenth(a, b) ==
    \/ Abs(a - b) > 1
    \/ Abs(a - b) = 1 /\ (<<a, b>> \in TenthApartOver \/ <<b, a>> \in TenthApartOver)

\* mutant: model_post_init checks nothing
ModelPostInitUnchecked(day) == TRUE

\* DayNutrition.model_post_init: no ValueError is raised (the kcal amounts used are
\* whole numbers, which subtract exactly)
ModelPostInitOk(day) ==
    /\ ~OverTenth(day.total_protein_g, SumMeals(day.meals, "protein_g"))
    /\ ~OverTenth(day.total_carb_g, SumMeals(day.meals, "carb_g"))
    /\ ~OverTenth(day.total_fat_g, SumMeals(day.meals, "fat_g"))
    /\ ~(Abs(day.total_kcal - SumMeals(day.meals, "kcal")) > 10)

\* DayNutrition.model_validate(data) succeeds: fields first, then model_post_init
ModelValidateOk(data) == DayFieldsOk(data) /\ ModelPostInitOk(data)

-----------------------------------------------------------------------------
(* Day records and collaborator responses the operations are driven with *)

\* one meal, one item, totals equal to the sums
Eggs ==
    DayNutrition(<<Meal("Breakfast", <<MealItem("eggs", 1000, 130, 10, 100, 1500)>>)>>,
                 130, 10, 100, 1500)

\* two meals, three items, totals equal to the sums
Chicken ==
    DayNutrition(<<Meal("Breakfast", <<MealItem("eggs", 1000, 130, 10, 100, 1500)>>),
                   Meal("Lunch", <<MealItem("chicken", 1500, 450, 0, 50, 2500),
                                   MealItem("rice", 2000, 50, 560, 10, 2600)>>)>>,
                 630, 570, 160, 6600)

\* declared protein 0.3 g over items summing to 0.2 g: inside the construction
\* tolerance (0.3 - 0.2 is not above 0.1), outside 5% relative
Trace ==
    DayNutrition(<<Meal("Snack", <<MealItem("celery", 1000, 2, 30, 0, 160)>>)>>,
                 3, 30, 0, 160)

\* declared protein 5.0 g over items summing to 13.0 g
Mismatch ==
    DayNutrition(<<Meal("Breakfast", <<MealItem("eggs", 1000, 130, 10, 100, 1500)>>)>>,
                 50, 10, 100, 1500)

\* a day without meals
NoMeals == DayNutrition(<<>>, 0, 0, 0, 0)

\* what the caller of edit_daily_summary can pass: constructed DayNutrition objects
EditRecords == {Chicken, Trace}

\* what llm.generate can do: raise, or return content that is not JSON, or
\* return content holding a JSON object
LlmOutputs ==
    {[kind |-> "raise", data |-> None], [kind |-> "garbage", data |-> None]}
    \cup {[kind |-> "json", data |-> Some(d)] : d \in {Eggs, Trace, Mismatch, NoMeals}}

-----------------------------------------------------------------------------
(* Return values *)

\* status "ok" is a normal return, any other status is the message of the exception
\* raised; prompt is the combined text handed to the collaborator (None if it was not
\* called) and llm_calls the number of llm.generate calls the operation made
Ret(status, id, day, warnings, pending, history, prompt, llm) ==
    [status |-> status, meal_id |-> id, day |-> day, warnings |-> warnings,
     pending |-> pending, history |-> history, prompt |-> prompt, llm_calls |-> llm]

Raise(msg, prompt, llm) == Ret(msg, -1, None, <<>>, <<>>, <<>>, prompt, llm)

Call(op, u, d, text, day, out, days) ==
    [op |-> op, user |-> u, date |-> d, text |-> text, day |-> day, out |-> out,
     days |-> days]

ErrNoPending == "No pending meals found"
ErrNoSummary == "No daily summary found"
ErrEditLimit == "Maximum edit limit (2) reached"
ErrNotJson == "LLM did not return valid JSON"
ErrValidation == "LLM response validation failed"
ErrUpstream == "llm.generate raised"

\* format(x, ".0f") of a number of tenths, as a number of units (round half to even)
Fmt0(x) ==
    LET q == x \div 10
        r == x % 10
    IN  IF r < 5 THEN q
        ELSE IF r > 5 THEN q + 1
        ELSE IF q % 2 = 0 THEN q ELSE q + 1

\* format(x, ".1f") of a number of tenths, as a number of tenths
Fmt1(x) == x

Warning(text, a, b) == [text |-> text, declared |-> a, expected |-> b]

\* a sequence with the None entries left out
RECURSIVE Compact(_)
Compact(s) ==
    IF s = <<>> THEN <<>>
    ELSE Head(s) \o Compact(Tail(s))

-----------------------------------------------------------------------------
(* Shared by both services: _validate_nutrition_data, _safe_json_extract *)

\* mutant: _validate_nutrition_data finds nothing to warn about
ValidateNutritionDataSilent(n) == <<>>

\* _validate_nutrition_data(nutrition): the warnings, in the order of the ifs
ValidateNutritionData(n) ==
    Compact(<<
        IF n.total_kcal < 0 THEN Some(Warning("Negative calories detected", n.total_kcal, 0)) ELSE None,
        IF n.total_kcal > 100000 THEN Some(Warning("Unusually high calorie count", n.total_kcal, 0)) ELSE None,
        IF n.total_protein_g < 0 THEN Some(Warning("Negative protein detected", n.total_protein_g, 0)) ELSE None,
        IF n.total_carb_g < 0 THEN Some(Warning("Negative carbs detected", n.total_carb_g, 0)) ELSE None,
        IF n.total_fat_g < 0 THEN Some(Warning("Negative fat detected", n.total_fat_g, 0)) ELSE None
    >>)

\* mutant: the limit check compares with > instead of >=
EditLimitOffByOne(count) == count > 2

\* mutant: the limit check is left out
EditLimitUnchecked(count) == FALSE

\* the edit limit check of edit_daily_summary
EditLimitReached(count) == count >= 2

\* mutant: the guard is left out
NoPendingUnchecked(pending_meals) == FALSE

\* the guard 'if not pending_meals' of process_daily_summary
NoPending(pending_meals) == pending_meals = <<>>

\* mutant: one llm.generate call per pending meal
LlmInvocationsPerMeal(pending_meals) == Len(pending_meals)

\* llm.generate is called once per process_daily_summary call, on the combined text
LlmInvocations(pending_meals) == 1

\* mutant: the extracted object is stored without DayNutrition.model_validate
ParseStatusUnvalidated(out) ==
    IF out.kind = "raise" THEN ErrUpstream
    ELSE IF out.kind = "garbage" THEN ErrNotJson
    ELSE "ok"

\* _parse_with_llm(text, llm) for a collaborator output: the status it ends with
ParseStatus(out) ==
    IF out.kind = "raise" THEN ErrUpstream
    ELSE IF out.kind = "garbage" THEN ErrNotJson
    ELSE IF ~ModelValidateOk(out.data[1]) THEN ErrValidation
    ELSE "ok"

\* summarize_day(day): the meal names and the four formatted totals
SummarizeDay(day) ==
    [meals |-> [i \in 1..Len(day.meals) |-> day.meals[i].name],
     protein |-> Fmt1(day.total_protein_g), carb |-> Fmt1(day.total_carb_g),
     fat |-> Fmt1(day.total_fat_g), kcal |-> Fmt0(day.total_kcal)]

HistoryEntry(d, day, count) ==
    [date |-> d, summary |-> SummarizeDay(day), edit_count |-> count, nutrition |-> day]

\* s[:n] of Python
Slice(s, n) ==
    LET m == IF n >= 0 THEN (IF n < Len(s) THEN n ELSE Len(s))
             ELSE Max(Len(s) + n, 0)
    IN  SubSeq(s, 1, m)

-----------------------------------------------------------------------------
(* services/meal_batching_memory.py: InMemoryMealBatchingService *)

\* _combine_meal_texts(meals)
RECURSIVE MemJoinMeals(_, _)
MemJoinMeals(meals, i) ==
    IF i > Len(meals) THEN ""
    ELSE (IF i > 1 THEN "\n\n" ELSE "") \o "Meal " \o ToString(i) \o ": " \o meals[i]
         \o MemJoinMeals(meals, i + 1)

MemCombineMealTexts(meals) ==
    IF Len(meals) = 1 THEN meals[1]
    ELSE "Here are all my meals for today:\n\n" \o MemJoinMeals(meals, 1)

\* math.isclose(a, b, rel_tol=0.05, abs_tol=1e-6) behind the a == b shortcut, on
\* tenths: |a - b| <= max(0.05 * max(|a|, |b|), 1e-6); two different numbers of
\* tenths are at least 0.1 apart, so the absolute floor never decides
MemClose(a, b) ==
    \/ a = b
    \/ 20 * Abs(a - b) <= Max(Abs(a), Abs(b))

\* InMemoryMealBatchingService._validate_consistency(day)
MemValidateConsistency(day) ==
    LET expected_protein == SumMeals(day.meals, "protein_g")
        expected_carb == SumMeals(day.meals, "carb_g")
        expected_fat == SumMeals(day.meals, "fat_g")
        expected_kcal == SumMeals(day.meals, "kcal")
    IN  Compact(<<
            IF ~MemClose(day.total_protein_g, expected_protein)
            THEN Some(Warning("Protein total mismatch", Fmt1(day.total_protein_g), Fmt1(expected_protein)))
            ELSE None,
            IF ~MemClose(day.total_carb_g, expected_carb)
            THEN Some(Warning("Carb total mismatch", Fmt1(day.total_carb_g), Fmt1(expected_carb)))
            ELSE None,
            IF ~MemClose(day.total_fat_g, expected_fat)
            THEN Some(Warning("Fat total mismatch", Fmt1(day.total_fat_g), Fmt1(expected_fat)))
            ELSE None,
            IF ~MemClose(day.total_kcal, expected_kcal)
            THEN Some(Warning("Calorie total mismatch", Fmt0(day.total_kcal), Fmt0(expected_kcal)))
            ELSE None
        >>)

\* log_quick_meal(user_id, meal_text, target_date)
MemLogQuickMeal(u, d, text) ==
    LET key == <<u, d>> IN
    /\ day_inputs' = [day_inputs EXCEPT ![key] = Append(@, text)]
    /\ memRet' = Ret("ok", Len(day_inputs'[key]) - 1, None, <<>>, <<>>, <<>>, None, 0)
    /\ UNCHANGED <<day_results, edit_counts>>

\* get_pending_meals(user_id, target_date): the list it returns
MemPendingMeals(u, d) == day_inputs[<<u, d>>]

MemGetPendingMeals(u, d) ==
    /\ memRet' = Ret("ok", -1, None, <<>>, MemPendingMeals(u, d), <<>>, None, 0)
    /\ UNCHANGED <<day_inputs, day_results, edit_counts>>

\* process_daily_summary(user_id, llm, target_date), the collaborator answering out
MemProcessDailySummary(u, d, out) ==
    LET key == <<u, d>>
        pending_meals == day_inputs[key]
        combined_text == MemCombineMealTexts(pending_meals)
        calls == LlmInvocations(pending_meals)
        status == ParseStatus(out)
    IN  IF NoPending(pending_meals)
        THEN /\ memRet' = Raise(ErrNoPending, None, 0)
             /\ UNCHANGED <<day_inputs, day_results, edit_counts>>
        ELSE IF status # "ok"
        THEN /\ memRet' = Raise(status, Some(combined_text), calls)
             /\ UNCHANGED <<day_inputs, day_results, edit_counts>>
        ELSE /\ day_results' = [day_results EXCEPT ![key] = Some(out.data[1])]
             /\ day_inputs' = [day_inputs EXCEPT ![key] = <<>>]
             /\ memRet' = Ret("ok", -1, Some(out.data[1]), MemValidateConsistency(out.data[1]),
                              <<>>, <<>>, Some(combined_text), calls)
             /\ UNCHANGED edit_counts

\* get_daily_summary(user_id, target_date): the value it returns
MemDailySummary(u, d) == day_results[<<u, d>>]

MemGetDailySummary(u, d) ==
    /\ memRet' = Ret("ok", -1, MemDailySummary(u, d), <<>>, <<>>, <<>>, None, 0)
    /\ UNCHANGED <<day_inputs, day_results, edit_counts>>

\* edit_daily_summary(user_id, target_date, edited_nutrition)
MemEditDailySummary(u, d, edited_nutrition) ==
    LET key == <<u, d>> IN
    IF day_results[key] = None
    THEN /\ memRet' = Raise(ErrNoSummary, None, 0)
         /\ UNCHANGED <<day_inputs, day_results, edit_counts>>
    ELSE IF EditLimitReached(edit_counts[key])
    THEN /\ memRet' = Raise(ErrEditLimit, None, 0)
         /\ UNCHANGED <<day_inputs, day_results, edit_counts>>
    ELSE /\ day_results' = [day_results EXCEPT ![key] = Some(edited_nutrition)]
         /\ edit_counts' = [edit_counts EXCEPT ![key] = @ + 1]
         /\ memRet' = Ret("ok", -1, Some(edited_nutrition),
                          ValidateNutritionData(edited_nutrition), <<>>, <<>>, None, 0)
         /\ UNCHANGED day_inputs

\* the dates of a set, most recent first
RECURSIVE SortDatesDesc(_)
SortDatesDesc(ds) ==
    IF ds = {} THEN <<>>
    ELSE LET top == CHOOSE x \in ds : \A y \in ds : y <= x
         IN  <<top>> \o SortDatesDesc(ds \ {top})

\* get_meal_history(user_id, days): the list it returns
MemMealHistory(u, days) ==
    LET dates == SortDatesDesc({k[2] : k \in {q \in Keys : q[1] = u /\ day_results[q] # None}})
        history == [i \in 1..Len(dates) |->
                       HistoryEntry(dates[i], day_results[<<u, dates[i]>>][1],
                                    edit_counts[<<u, dates[i]>>])]
    IN  Slice(history, days)

MemGetMealHistory(u, days) ==
    /\ memRet' = Ret("ok", -1, None, <<>>, <<>>, MemMealHistory(u, days), None, 0)
    /\ UNCHANGED <<day_inputs, day_results, edit_counts>>

-----------------------------------------------------------------------------
(* models.py and services/meal_batching.py: MealBatchingService over SQLite *)

\* a row of raw_meal_inputs; id is the rowid SQLite assigns (one more than the
\* largest, rows are never deleted) and ts the default datetime.utcnow of the
\* insert, which does not decrease from one insert to the next
RawMealInput(id, u, d, text) ==
    [id |-> id, user_id |-> u, date |-> d, ts |-> id, raw_text |-> text,
     processed |-> FALSE, edit_count |-> 0]

\* a row of daily_nutrition_summaries (ts is written and never read: left out)
DailyNutritionSummary(id, u, d, payload_json, raw_input_ids, count) ==
    [id |-> id, user_id |-> u, date |-> d, payload_json |-> payload_json,
     raw_input_ids |-> raw_input_ids, edit_count |-> count]

\* day.model_dump_json(): the field values in declaration order
ModelDumpJson(day) ==
    <<"DayNutrition", day.meals, day.total_protein_g, day.total_carb_g,
      day.total_fat_g, day.total_kcal>>

\* DayNutrition.model_validate_json(payload_json): None stands for the ValueError
ModelValidateJson(json) ==
    LET day == DayNutrition(json[2], json[3], json[4], json[5], json[6])
    IN  IF ModelValidateOk(day) THEN Some(day) ELSE None

\* mutant: the rows newest first
RECURSIVE OrderByTsDesc(_)
OrderByTsDesc(rows) ==
    IF rows = {} THEN <<>>
    ELSE LET last == CHOOSE r \in rows :
                         \A q \in rows : r.ts > q.ts \/ (r.ts = q.ts /\ r.id >= q.id)
         IN  <<last>> \o OrderByTsDesc(rows \ {last})

\* the rows of a set in ts order (ids break ties)
RECURSIVE OrderByTs(_)
OrderByTs(rows) ==
    IF rows = {} THEN <<>>
    ELSE LET first == CHOOSE r \in rows :
                          \A q \in rows : r.ts < q.ts \/ (r.ts = q.ts /\ r.id <= q.id)
         IN  <<first>> \o OrderByTs(rows \ {first})

Rows(table) == {table[i] : i \in 1..Len(table)}

\* mutant: the query does not filter on processed
DbPendingMealsWithProcessed(u, d) ==
    OrderByTs({r \in Rows(raw_meal_inputs) : r.user_id = u /\ r.date = d})

\* mutant: the query does not filter on date
DbPendingMealsAnyDate(u, d) ==
    OrderByTs({r \in Rows(raw_meal_inputs) : r.user_id = u /\ r.processed = FALSE})

\* get_pending_meals(user_id, target_date): the list it returns
DbPendingMeals(u, d) ==
    OrderByTs({r \in Rows(raw_meal_inputs) :
                  r.user_id = u /\ r.date = d /\ r.processed = FALSE})

\* mutant: the query takes the newest matching row
DbLatestSummary(u, d) ==
    LET found == {r \in Rows(daily_nutrition_summaries) : r.user_id = u /\ r.date = d}
    IN  IF found = {} THEN None
        ELSE Some(CHOOSE r \in found : \A q \in found : r.id >= q.id)

\* mutant: the query does not filter on date
DbFirstSummaryAnyDate(u, d) ==
    LET found == {r \in Rows(daily_nutrition_summaries) : r.user_id = u}
    IN  IF found = {} THEN None
        ELSE Some(CHOOSE r \in found : \A q \in found : r.id <= q.id)

\* query(DailyNutritionSummary).filter(user_id, date).first(): LIMIT 1 without
\* ORDER BY; SQLite walks the table or one of the two single-column indexes, and
\* each of them yields the matching rows in rowid order
DbFirstSummary(u, d) ==
    LET found == {r \in Rows(daily_nutrition_summaries) : r.user_id = u /\ r.date = d}
    IN  IF found = {} THEN None
        ELSE Some(CHOOSE r \in found : \A q \in found : r.id <= q.id)

\* _combine_meal_texts(meals); strftime('%H:%M') of the row's ts
RECURSIVE DbJoinMeals(_, _)
DbJoinMeals(meals, i) ==
    IF i > Len(meals) THEN ""
    ELSE (IF i > 1 THEN "\n\n" ELSE "") \o "Meal " \o ToString(i) \o " (logged at "
         \o ToString(meals[i].ts) \o "): " \o meals[i].raw_text
         \o DbJoinMeals(meals, i + 1)

DbCombineMealTexts(meals) ==
    IF Len(meals) = 1 THEN meals[1].raw_text
    ELSE "Here are all my meals for today:\n\n" \o DbJoinMeals(meals, 1)

\* MealBatchingService._validate_consistency(day)
DbValidateConsistency(day) ==
    LET expected_protein == SumMeals(day.meals, "protein_g")
        expected_carb == SumMeals(day.meals, "carb_g")
        expected_fat == SumMeals(day.meals, "fat_g")
        expected_kcal == SumMeals(day.meals, "kcal")
    IN  Compact(<<
            IF OverTenth(day.total_protein_g, expected_protein)
            THEN Some(Warning("Protein total mismatch", Fmt1(day.total_protein_g), Fmt1(expected_protein)))
            ELSE None,
            IF OverTenth(day.total_carb_g, expected_carb)
            THEN Some(Warning("Carb total mismatch", Fmt1(day.total_carb_g), Fmt1(expected_carb)))
            ELSE None,
            IF OverTenth(day.total_fat_g, expected_fat)
            THEN Some(Warning("Fat total mismatch", Fmt1(day.total_fat_g), Fmt1(expected_fat)))
            ELSE None,
            IF Abs(day.total_kcal - expected_kcal) > 10
            THEN Some(Warning("Calorie total mismatch", Fmt0(day.total_kcal), Fmt0(expected_kcal)))
            ELSE None
        >>)

\* log_quick_meal(user_id, meal_text, target_date)
DbLogQuickMeal(u, d, text) ==
    LET meal_input == RawMealInput(Len(raw_meal_inputs) + 1, u, d, text) IN
    /\ raw_meal_inputs' = Append(raw_meal_inputs, meal_input)
    /\ dbRet' = Ret("ok", meal_input.id, None, <<>>, <<>>, <<>>, None, 0)
    /\ UNCHANGED daily_nutrition_summaries

\* get_pending_meals(user_id, target_date)
DbGetPendingMeals(u, d) ==
    /\ dbRet' = Ret("ok", -1, None, <<>>, DbPendingMeals(u, d), <<>>, None, 0)
    /\ UNCHANGED <<raw_meal_inputs, daily_nutrition_summaries>>

\* process_daily_summary from the check of the pending meals it has read onwards
DbParseAndStore(u, d, pending_meals, out) ==
    LET combined_text == DbCombineMealTexts(pending_meals)
        calls == LlmInvocations(pending_meals)
        status == ParseStatus(out)
        raw_input_ids == [i \in 1..Len(pending_meals) |-> ToString(pending_meals[i].id)]
        ids == {pending_meals[i].id : i \in 1..Len(pending_meals)}
    IN  IF NoPending(pending_meals)
        THEN /\ dbRet' = Raise(ErrNoPending, None, 0)
             /\ UNCHANGED <<raw_meal_inputs, daily_nutrition_summaries>>
        ELSE IF status # "ok"
        THEN /\ dbRet' = Raise(status, Some(combined_text), calls)
             /\ UNCHANGED <<raw_meal_inputs, daily_nutrition_summaries>>
        ELSE /\ daily_nutrition_summaries' =
                    Append(daily_nutrition_summaries,
                        DailyNutritionSummary(Len(daily_nutrition_summaries) + 1, u, d,
                                              ModelDumpJson(out.data[1]), raw_input_ids, 0))
             /\ raw_meal_inputs' =
                    [i \in 1..Len(raw_meal_inputs) |->
                        IF raw_meal_inputs[i].id \in ids
                        THEN [raw_meal_inputs[i] EXCEPT !.processed = TRUE]
                        ELSE raw_meal_inputs[i]]
             /\ dbRet' = Ret("ok", -1, Some(out.data[1]), DbValidateConsistency(out.data[1]),
                             <<>>, <<>>, Some(combined_text), calls)

\* process_daily_summary(user_id, llm, target_date), the collaborator answering out
DbProcessDailySummary(u, d, out) == DbParseAndStore(u, d, DbPendingMeals(u, d), out)

\* get_daily_summary(user_id, target_date): the value it returns
DbDailySummary(u, d) ==
    LET summary == DbFirstSummary(u, d)
    IN  IF summary # None THEN ModelValidateJson(summary[1].payload_json) ELSE None

DbGetDailySummary(u, d) ==
    /\ dbRet' = Ret("ok", -1, DbDailySummary(u, d), <<>>, <<>>, <<>>, None, 0)
    /\ UNCHANGED <<raw_meal_inputs, daily_nutrition_summaries>>

\* edit_daily_summary from the check of the row it has read onwards. The flush
\* writes the attributes whose value differs from the loaded one, by primary
\* key: edit_count becomes the loaded count plus one
DbCheckAndUpdate(summary, edited_nutrition) ==
    IF summary = None
    THEN /\ dbRet' = Raise(ErrNoSummary, None, 0)
         /\ UNCHANGED <<raw_meal_inputs, daily_nutrition_summaries>>
    ELSE IF EditLimitReached(summary[1].edit_count)
    THEN /\ dbRet' = Raise(ErrEditLimit, None, 0)
         /\ UNCHANGED <<raw_meal_inputs, daily_nutrition_summaries>>
    ELSE /\ daily_nutrition_summaries' =
                [daily_nutrition_summaries EXCEPT ![summary[1].id] =
                    [@ EXCEPT !.payload_json =
                                  IF ModelDumpJson(edited_nutrition) = summary[1].payload_json
                                  THEN @ ELSE ModelDumpJson(edited_nutrition),
                              !.edit_count = summary[1].edit_count + 1]]
         /\ dbRet' = Ret("ok", -1, Some(edited_nutrition),
                         ValidateNutritionData(edited_nutrition), <<>>, <<>>, None, 0)
         /\ UNCHANGED raw_meal_inputs

\* edit_daily_summary(user_id, target_date, edited_nutrition)
DbEditDailySummary(u, d, edited_nutrition) ==
    DbCheckAndUpdate(DbFirstSummary(u, d), edited_nutrition)

\* get_meal_history(user_id, days): filter(user_id).order_by(date.desc()).limit(days);
\* rows of equal date come in an order SQL leaves open, so every list the query can
\* return is a member (a negative LIMIT is no limit in SQLite)
DbMealHistories(u, days) ==
    LET found == {r \in Rows(daily_nutrition_summaries) : r.user_id = u}
        n == IF days >= 0 /\ days < Cardinality(found) THEN days ELSE Cardinality(found)
        picks == {s \in [1..n -> found] :
                    /\ \A i, j \in 1..n : i < j => s[i].id # s[j].id /\ s[i].date >= s[j].date
                    /\ \A r \in found :
                          (\A i \in 1..n : s[i].id # r.id) =>
                              \A i \in 1..n : s[i].date >= r.date}
    IN  {[i \in 1..n |->
             HistoryEntry(s[i].date, ModelValidateJson(s[i].payload_json)[1], s[i].edit_count)]
         : s \in picks}

DbGetMealHistory(u, days) ==
    /\ \E history \in DbMealHistories(u, days) :
           dbRet' = Ret("ok", -1, None, <<>>, <<>>, history, None, 0)
    /\ UNCHANGED <<raw_meal_inputs, daily_nutrition_summaries>>

-----------------------------------------------------------------------------
(* The two services driven by the same calls *)

NoRet == Ret("none", -1, None, <<>>, <<>>, <<>>, None, 0)

\* no helper function has been applied
NotApplied == [fn |-> "none", arg |-> None, strict |-> FALSE, result |-> None]

\* a service instance that is in no call
Idle == [pc |-> "idle", user |-> "u1", date |-> 15, pending |-> <<>>,
         summary |-> None, edited |-> None]

\* respond has not been called
NoChat == [status |-> "none", user |-> "u1", date |-> 15, text |-> "", intent |-> "",
           tools |-> <<>>, tool_calls |-> <<>>, answer |-> [head |-> "", detail |-> <<>>],
           tokens_in |-> 0, tokens_out |-> 0, llm_calls |-> 0]

Init ==
    /\ day_inputs = [k \in Keys |-> <<>>]
    /\ day_results = [k \in Keys |-> None]
    /\ edit_counts = [k \in Keys |-> 0]
    /\ raw_meal_inputs = <<>>
    /\ daily_nutrition_summaries = <<>>
    /\ call = Call("none", "u1", 15, "", None, None, 0)
    /\ memRet = NoRet
    /\ dbRet = NoRet
    /\ audit = [k \in Keys |-> [mem_edits |-> 0, db_edits |-> 0,
                                mem_second |-> None, db_second |-> None,
                                mem_ids |-> <<>>]]
    /\ sessions = [s \in Sessions |-> Idle]
    /\ applied = NotApplied
    /\ STORE = [u \in Users |-> <<>>]
    /\ added = [u \in Users |-> <<>>]
    /\ messages = <<>>
    /\ chatRet = NoChat

LogQuickMeal ==
    \E u \in Users, d \in Dates, text \in Texts :
        /\ <<u, d>> \in Keys
        /\ Len(raw_meal_inputs) < MaxLogs
        /\ call' = Call("log", u, d, text, None, None, 0)
        /\ MemLogQuickMeal(u, d, text)
        /\ DbLogQuickMeal(u, d, text)
        /\ audit' = [audit EXCEPT ![<<u, d>>].mem_ids = Append(@, memRet'.meal_id)]
        /\ UNCHANGED <<sessions, applied, chatVars>>

GetPendingMeals ==
    \E u \in Users, d \in Dates :
        /\ <<u, d>> \in Keys
        /\ call' = Call("pending", u, d, "", None, None, 0)
        /\ MemGetPendingMeals(u, d)
        /\ DbGetPendingMeals(u, d)
        /\ UNCHANGED <<audit, sessions, applied, chatVars>>

\* the collaborator's answer is an input of the call only when a service reaches
\* llm.generate, that is when it finds pending meals
LlmAnswers(u, d) ==
    IF NoPending(day_inputs[<<u, d>>]) /\ NoPending(DbPendingMeals(u, d))
    THEN {[kind |-> "not called", data |-> None]}
    ELSE LlmOutputs

ProcessDailySummary ==
    \E u \in Users, d \in Dates :
        /\ <<u, d>> \in Keys
        /\ \E out \in LlmAnswers(u, d) :
            /\ call' = Call("finalize", u, d, "", None, Some(out), 0)
            /\ MemProcessDailySummary(u, d, out)
            /\ DbProcessDailySummary(u, d, out)
            /\ UNCHANGED <<audit, sessions, applied, chatVars>>

GetDailySummary ==
    \E u \in Users, d \in Dates :
        /\ <<u, d>> \in Keys
        /\ call' = Call("get", u, d, "", None, None, 0)
        /\ MemGetDailySummary(u, d)
        /\ DbGetDailySummary(u, d)
        /\ UNCHANGED <<audit, sessions, applied, chatVars>>

EditDailySummary ==
    \E u \in Users, d \in Dates, edited_nutrition \in EditRecords :
        /\ <<u, d>> \in Keys
        /\ call' = Call("edit", u, d, "", Some(edited_nutrition), None, 0)
        /\ MemEditDailySummary(u, d, edited_nutrition)
        /\ DbEditDailySummary(u, d, edited_nutrition)
        /\ audit' = [audit EXCEPT ![<<u, d>>] =
               [mem_edits |-> IF memRet'.status = "ok" THEN @.mem_edits + 1 ELSE @.mem_edits,
                db_edits |-> IF dbRet'.status = "ok" THEN @.db_edits + 1 ELSE @.db_edits,
                mem_second |-> IF memRet'.status = "ok" /\ @.mem_edits = 1
                               THEN Some(edited_nutrition) ELSE @.mem_second,
                db_second |-> IF dbRet'.status = "ok" /\ @.db_edits = 1
                              THEN Some(edited_nutrition) ELSE @.db_second,
                mem_ids |-> @.mem_ids]]
        /\ UNCHANGED <<sessions, applied, chatVars>>

GetMealHistory ==
    \E u \in Users, days \in Limits :
        /\ call' = Call("history", u, 15, "", None, None, days)
        /\ MemGetMealHistory(u, days)
        /\ DbGetMealHistory(u, days)
        /\ UNCHANGED <<audit, sessions, applied, chatVars>>

Next ==
    \/ LogQuickMeal
    \/ GetPendingMeals
    \/ ProcessDailySummary
    \/ GetDailySummary
    \/ EditDailySummary
    \/ GetMealHistory

Spec == Init /\ [][Next]_vars

-----------------------------------------------------------------------------
(* MealBatchingService instances whose calls overlap. Every instance has a   *)
(* session of its own (SessionLocal()) on the one SQLite file. The sqlite3   *)
(* driver opens a transaction at the first INSERT or UPDATE of a flush, not  *)
(* at a SELECT, so a session holds no lock between the rows it reads and its *)
(* commit; the flush and the commit are one step.                            *)

NotCalled == [kind |-> "not called", data |-> None]

\* the inputs of the overlapping calls: two dates of one user, one text, a
\* collaborator that raises or answers a valid record, one corrected record
SessionKeys == {<<"u1", 15>>, <<"u1", 16>>}
SessionTexts == {"breakfast: eggs"}
SessionLlmOutputs ==
    {[kind |-> "raise", data |-> None], [kind |-> "json", data |-> Some(Eggs)]}
SessionEditRecords == {Chicken}

MemUntouched ==
    UNCHANGED <<day_inputs, day_results, edit_counts, memRet, applied, chatVars>>

\* log_quick_meal: add, commit
SessionLogQuickMeal ==
    \E s \in Sessions, u \in Users, d \in Dates, text \in SessionTexts :
        /\ sessions[s].pc = "idle"
        /\ <<u, d>> \in SessionKeys
        /\ Len(raw_meal_inputs) < MaxLogs
        /\ call' = Call("log", u, d, text, None, None, 0)
        /\ DbLogQuickMeal(u, d, text)
        /\ MemUntouched
        /\ UNCHANGED <<audit, sessions, applied, chatVars>>

\* process_daily_summary up to llm.generate: the pending meals are read; without
\* pending meals the call raises at once
SessionReadPendingMeals ==
    \E s \in Sessions, u \in Users, d \in Dates :
        /\ sessions[s].pc = "idle"
        /\ <<u, d>> \in SessionKeys
        /\ LET pending_meals == DbPendingMeals(u, d) IN
           IF NoPending(pending_meals)
           THEN /\ call' = Call("finalize", u, d, "", None, Some(NotCalled), 0)
                /\ DbParseAndStore(u, d, pending_meals, NotCalled)
                /\ UNCHANGED sessions
           ELSE /\ sessions' = [sessions EXCEPT ![s] =
                       [Idle EXCEPT !.pc = "llm", !.user = u, !.date = d,
                                    !.pending = pending_meals]]
                /\ UNCHANGED <<raw_meal_inputs, daily_nutrition_summaries, call, dbRet>>
        /\ MemUntouched
        /\ UNCHANGED audit

\* process_daily_summary from the return of llm.generate: parse, add the summary,
\* mark the meals that were read as processed, commit
SessionStoreSummary ==
    \E s \in Sessions, out \in SessionLlmOutputs :
        /\ sessions[s].pc = "llm"
        /\ call' = Call("finalize", sessions[s].user, sessions[s].date, "", None, Some(out), 0)
        /\ DbParseAndStore(sessions[s].user, sessions[s].date, sessions[s].pending, out)
        /\ sessions' = [sessions EXCEPT ![s] = Idle]
        /\ MemUntouched
        /\ UNCHANGED audit

\* edit_daily_summary up to the commit: the summary row is read and checked
SessionReadSummary ==
    \E s \in Sessions, u \in Users, d \in Dates, edited_nutrition \in SessionEditRecords :
        /\ sessions[s].pc = "idle"
        /\ <<u, d>> \in SessionKeys
        /\ LET summary == DbFirstSummary(u, d) IN
           IF summary = None \/ EditLimitReached(summary[1].edit_count)
           THEN /\ call' = Call("edit", u, d, "", Some(edited_nutrition), None, 0)
                /\ DbCheckAndUpdate(summary, edited_nutrition)
                /\ UNCHANGED sessions
           ELSE /\ sessions' = [sessions EXCEPT ![s] =
                       [Idle EXCEPT !.pc = "flush", !.user = u, !.date = d,
                                    !.summary = summary,
                                    !.edited = Some(edited_nutrition)]]
                /\ UNCHANGED <<raw_meal_inputs, daily_nutrition_summaries, call, dbRet>>
        /\ MemUntouched
        /\ UNCHANGED audit

\* edit_daily_summary: the commit of the row that was read
SessionCommitEdit ==
    \E s \in Sessions :
        /\ sessions[s].pc = "flush"
        /\ call' = Call("edit", sessions[s].user, sessions[s].date, "",
                        sessions[s].edited, None, 0)
        /\ DbCheckAndUpdate(sessions[s].summary, sessions[s].edited[1])
        /\ sessions' = [sessions EXCEPT ![s] = Idle]
        /\ audit' = [audit EXCEPT ![<<sessions[s].user, sessions[s].date>>] =
               [@ EXCEPT !.db_edits = @ + 1,
                         !.db_second = IF audit[<<sessions[s].user, sessions[s].date>>].db_edits = 1
                                       THEN sessions[s].edited ELSE @]]
        /\ MemUntouched

NextSessions ==
    \/ SessionLogQuickMeal
    \/ SessionReadPendingMeals
    \/ SessionStoreSummary
    \/ SessionReadSummary
    \/ SessionCommitEdit

SpecSessions == Init /\ [][NextSessions]_vars

-----------------------------------------------------------------------------
(* llms/tools/nutrition.py: the record of the tools module and its validator *)

\* a dict is the sequence of its (key, value) pairs in insertion order
HasKey(d, key) == \E i \in 1..Len(d) : d[i][1] = key

\* d.get(key, default)
Get(d, key, default) ==
    IF HasKey(d, key) THEN d[CHOOSE i \in 1..Len(d) : d[i][1] = key][2] ELSE default

\* _acc(d, key, val): d[key] = d.get(key, 0.0) + val
Acc(d, key, val) ==
    IF HasKey(d, key)
    THEN [i \in 1..Len(d) |-> IF d[i][1] = key THEN <<key, d[i][2] + val>> ELSE d[i]]
    ELSE Append(d, <<key, val>>)

\* _close(a, b, rel=0.05): a == b, or math.isclose(a, b, rel_tol=0.05, abs_tol=1e-6);
\* on tenths as MemClose
Close(a, b) ==
    \/ a = b
    \/ 20 * Abs(a - b) <= Max(Abs(a), Abs(b))

\* MealItem, Meal and DayNutrition of the tools module
ToolsMealItem(n, g, macros, micros, k) ==
    [name |-> n, grams |-> g, macros |-> macros, micros |-> micros, kcal |-> k]

ToolsDayNutrition(ms, totals) == [meals |-> ms, totals |-> totals]

RECURSIVE AccMicros(_, _)
\* for k, v in it.micros.items(): _acc(sums, k, v)
AccMicros(sums, micros) ==
    IF micros = <<>> THEN sums
    ELSE AccMicros(Acc(sums, Head(micros)[1], Head(micros)[2]), Tail(micros))

\* the body of the loop over the items of a meal
AccItem(sums, it) ==
    LET s1 == Acc(sums, "protein_g", Get(it.macros, "protein_g", 0))
        s2 == Acc(s1, "carb_g", Get(it.macros, "carb_g", 0))
        s3 == Acc(s2, "fat_g", Get(it.macros, "fat_g", 0))
        s4 == Acc(s3, "kcal", it.kcal)
    IN  AccMicros(s4, it.micros)

RECURSIVE AccItems(_, _)
AccItems(sums, items) ==
    IF items = <<>> THEN sums
    ELSE AccItems(AccItem(sums, Head(items)), Tail(items))

RECURSIVE AccMeals(_, _)
AccMeals(sums, meals) ==
    IF meals = <<>> THEN sums
    ELSE AccMeals(AccItems(sums, Head(meals).items), Tail(meals))

MacroKeys == <<"protein_g", "carb_g", "fat_g", "kcal">>

\* mutant: the macro totals are compared in the order kcal, fat_g, carb_g, protein_g
MacroWarningsReversed(day, sums) ==
    Compact([i \in 1..4 |->
        LET key == MacroKeys[5 - i]
            expected == Get(sums, key, 0)
            got == Get(day.totals, key, 0)
        IN  IF ~Close(got, expected)
            THEN Some(Warning("totals." \o key \o " mismatch", got, expected))
            ELSE None])

\* the messages of the loop over the macro totals, in the order the loop builds
\* them (round(x, 2) leaves a number of tenths as it is)
MacroWarnings(day, sums) ==
    Compact([i \in 1..4 |->
        LET key == MacroKeys[i]
            expected == Get(sums, key, 0)
            got == Get(day.totals, key, 0)
        IN  IF ~Close(got, expected)
            THEN Some(Warning("totals." \o key \o " mismatch", got, expected))
            ELSE None])

\* the messages of the loop over the micronutrient sums
MicroWarnings(day, sums) ==
    Compact([i \in 1..Len(sums) |->
        LET micro_key == sums[i][1]
            expected == sums[i][2]
        IN  IF micro_key \in {"protein_g", "carb_g", "fat_g", "kcal"} THEN None
            ELSE IF ~HasKey(day.totals, micro_key)
            THEN Some(Warning("totals missing micronutrient key: " \o micro_key, 0, expected))
            ELSE IF ~Close(Get(day.totals, micro_key, 0), expected)
            THEN Some(Warning("totals." \o micro_key \o " mismatch",
                              Get(day.totals, micro_key, 0), expected))
            ELSE None])

\* mutant: require_exact_totals is ignored
ToolsValidateConsistencyLenient(day, require_exact_totals) ==
    LET sums == AccMeals(<<>>, day.meals)
    IN  [status |-> "ok", error |-> None,
         warnings |-> Some(MacroWarnings(day, sums) \o MicroWarnings(day, sums))]

\* _validate_consistency(day, require_exact_totals) of the tools module: the
\* ValueError of the first macro total that is not close, or the list of warnings
ToolsValidateConsistency(day, require_exact_totals) ==
    LET sums == AccMeals(<<>>, day.meals)
        macro == MacroWarnings(day, sums)
    IN  IF require_exact_totals /\ macro # <<>>
        THEN [status |-> "ValueError", error |-> Some(macro[1]), warnings |-> None]
        ELSE [status |-> "ok", error |-> None,
              warnings |-> Some(macro \o MicroWarnings(day, sums))]

-----------------------------------------------------------------------------
(* Text, JSON values, json.loads and json.dumps *)

\* the tokens of a text: Punct("{"), Punct("}"), Punct("["), Punct("]"),
\* Punct(","), Punct(":"), a fence of three backticks, white space, a word, and
\* the JSON string and number literals
Punct(c) == [t |-> "punct", v |-> c]
Fence == [t |-> "fence", v |-> "fence"]
Ws == [t |-> "ws", v |-> " "]
Word(w) == [t |-> "word", v |-> w]
Str(x) == [t |-> "str", v |-> x]
Num(x) == [t |-> "num", v |-> x]

\* the values json.loads returns, by type: an "object" has the sequence of its
\* (key, value) pairs as items (no sample has a repeated key), an "array" the
\* sequence of its elements, each paired with the empty key; a "string" or a
\* "number" has its literal as lit and no items
Json(type, lit, items) == [type |-> type, lit |-> lit, v |-> items]

RECURSIVE SkipWs(_, _)
\* the first position from i on that holds no white space
SkipWs(s, i) ==
    IF i <= Len(s) /\ s[i].t = "ws" THEN SkipWs(s, i + 1) ELSE i

\* what the decoder found at a position: a value and the position after it, or
\* nothing
ParseResult(ok, value, next) == [ok |-> ok, value |-> value, next |-> next]

RECURSIVE ParseValue(_, _), ParseItems(_, _, _, _)

\* the JSON decoder at position i0
ParseValue(s, i0) ==
    LET i == SkipWs(s, i0) IN
    IF i > Len(s) THEN ParseResult(FALSE, Json("none", "", <<>>), 0)
    ELSE IF s[i] \in {Punct("{"), Punct("[")}
    THEN LET close == IF s[i] = Punct("{") THEN "}" ELSE "]"
             j == SkipWs(s, i + 1)
         IN  IF j <= Len(s) /\ s[j] = Punct(close)
             THEN ParseResult(TRUE, Json(IF close = "}" THEN "object" ELSE "array", "", <<>>),
                              j + 1)
             ELSE ParseItems(s, i + 1, <<>>, close)
    ELSE IF s[i].t = "str" THEN ParseResult(TRUE, Json("string", s[i].v, <<>>), i + 1)
    ELSE IF s[i].t = "num" THEN ParseResult(TRUE, Json("number", s[i].v, <<>>), i + 1)
    ELSE ParseResult(FALSE, Json("none", "", <<>>), 0)

\* the decoder inside an object ("key": value pairs up to the closing brace) or
\* inside an array (values up to the closing bracket)
ParseItems(s, i0, acc, close) ==
    LET i == SkipWs(s, i0)
        keyed == close = "}"
        colon == SkipWs(s, i + 1)
    IN  IF keyed /\ ~(/\ i <= Len(s)
                      /\ s[i].t = "str"
                      /\ colon <= Len(s)
                      /\ s[colon] = Punct(":"))
        THEN ParseResult(FALSE, Json("none", "", <<>>), 0)
        ELSE LET r == ParseValue(s, IF keyed THEN colon + 1 ELSE i) IN
             IF ~r.ok THEN ParseResult(FALSE, Json("none", "", <<>>), 0)
             ELSE LET n == SkipWs(s, r.next)
                      items == Append(acc, <<IF keyed THEN s[i].v ELSE "", r.value>>)
                  IN  IF n > Len(s) THEN ParseResult(FALSE, Json("none", "", <<>>), 0)
                      ELSE IF s[n] = Punct(close)
                      THEN ParseResult(TRUE,
                                       Json(IF keyed THEN "object" ELSE "array", "", items),
                                       n + 1)
                      ELSE IF s[n] = Punct(",") THEN ParseItems(s, n + 1, items, close)
                      ELSE ParseResult(FALSE, Json("none", "", <<>>), 0)

\* json.loads(s): the value, or None where it raises JSONDecodeError (nothing but
\* white space may follow the value)
JsonLoads(s) ==
    LET r == ParseValue(s, 1) IN
    IF r.ok /\ SkipWs(s, r.next) > Len(s) THEN Some(r.value) ELSE None

RECURSIVE JsonDumps(_), DumpsItems(_, _)

\* json.dumps(value, separators=(",", ":"))
JsonDumps(value) ==
    IF value.type = "object"
    THEN <<Punct("{")>> \o DumpsItems(value.v, TRUE) \o <<Punct("}")>>
    ELSE IF value.type = "array"
    THEN <<Punct("[")>> \o DumpsItems(value.v, FALSE) \o <<Punct("]")>>
    ELSE IF value.type = "string" THEN <<Str(value.lit)>>
    ELSE <<Num(value.lit)>>

\* the pairs of an object or the elements of an array, joined by commas
DumpsItems(items, keyed) ==
    IF items = <<>> THEN <<>>
    ELSE (IF keyed THEN <<Str(Head(items)[1]), Punct(":")>> ELSE <<>>)
         \o JsonDumps(Head(items)[2])
         \o (IF Len(items) > 1 THEN <<Punct(",")>> ELSE <<>>)
         \o DumpsItems(Tail(items), keyed)

-----------------------------------------------------------------------------
(* _safe_json_extract, the same code in both services and in the tools module *)

RECURSIVE Strip(_)
\* s.strip()
Strip(s) ==
    IF s # <<>> /\ Head(s).t = "ws" THEN Strip(Tail(s))
    ELSE IF s # <<>> /\ s[Len(s)].t = "ws" THEN Strip(SubSeq(s, 1, Len(s) - 1))
    ELSE s

\* the spellings of the label that "json" matches under re.I
JsonLabels == {"json", "JSON", "Json"}

\* the ends of group 1 for a group starting at b: a closing brace that only white
\* space separates from a fence
GroupEnds(s, b) ==
    {e \in (b + 1)..Len(s) :
        /\ s[e] = Punct("}")
        /\ SkipWs(s, e + 1) <= Len(s)
        /\ s[SkipWs(s, e + 1)] = Fence}

\* the positions where r"```json\s*(\{.*?\})\s*```" matches
FenceStarts(s) ==
    {a \in 1..(Len(s) - 1) :
        /\ s[a] = Fence
        /\ s[a + 1].t = "word"
        /\ s[a + 1].v \in JsonLabels
        /\ SkipWs(s, a + 2) <= Len(s)
        /\ s[SkipWs(s, a + 2)] = Punct("{")
        /\ GroupEnds(s, SkipWs(s, a + 2)) # {}}

\* re.search(r"```json\s*(\{.*?\})\s*```", s, flags=re.S | re.I): m.group(1) of the
\* leftmost match, the shortest at that position, or None
FencedGroup(s) ==
    IF FenceStarts(s) = {} THEN None
    ELSE LET a == CHOOSE x \in FenceStarts(s) : \A y \in FenceStarts(s) : x <= y
             b == SkipWs(s, a + 2)
             e == CHOOSE x \in GroupEnds(s, b) : \A y \in GroupEnds(s, b) : x <= y
         IN  Some(SubSeq(s, b, e))

\* s.find(tok), -1 where there is none
Find(s, tok) ==
    IF \E i \in 1..Len(s) : s[i] = tok
    THEN CHOOSE i \in 1..Len(s) : s[i] = tok /\ \A k \in 1..(i - 1) : s[k] # tok
    ELSE -1

\* s.rfind(tok), -1 where there is none
RFind(s, tok) ==
    IF \E i \in 1..Len(s) : s[i] = tok
    THEN CHOOSE i \in 1..Len(s) : s[i] = tok /\ \A k \in (i + 1)..Len(s) : s[k] # tok
    ELSE -1

ErrJsonDecode == "JSONDecodeError"

\* what _safe_json_extract does: status "ok" and the value it returns, or the
\* exception it raises
ExtractResult(status, value) == [status |-> status, value |-> value]

\* _safe_json_extract(s)
SafeJsonExtract(raw) ==
    LET s == Strip(raw)
        m == FencedGroup(s)
        i == Find(s, Punct("{"))
        j == RFind(s, Punct("}"))
    IN  IF JsonLoads(s) # None THEN ExtractResult("ok", JsonLoads(s))
        ELSE IF m # None /\ JsonLoads(m[1]) # None THEN ExtractResult("ok", JsonLoads(m[1]))
        ELSE IF i # -1 /\ j # -1 /\ j > i
        THEN IF JsonLoads(SubSeq(s, i, j)) # None
             THEN ExtractResult("ok", JsonLoads(SubSeq(s, i, j)))
             ELSE ExtractResult(ErrJsonDecode, None)
        ELSE ExtractResult(ErrNotJson, None)

-----------------------------------------------------------------------------
(* SpecHelpers: the helper functions applied on their own *)

\* constructed records over one item (0.2 g of each macro, 17 kcal) whose declared
\* totals are off the sums for every subset of the four nutrients: 0.3 g against
\* 0.2 g and 16 kcal against 17 kcal pass model_post_init and are not within 5%
ValidatorDays ==
    {DayNutrition(<<Meal("Snack", <<MealItem("celery", 1000, 2, 2, 2, 170)>>)>>,
                  IF p THEN 3 ELSE 2, IF c THEN 3 ELSE 2, IF f THEN 3 ELSE 2,
                  IF k THEN 160 ELSE 170) : p, c, f, k \in BOOLEAN}

\* records of the tools module over the same item: totals off the sums for every
\* subset of the four nutrients, each with no micronutrient, with one and its
\* total, with one and no total, and with one whose total is off; and a record
\* whose totals have no fat_g key
ToolsDays ==
    {ToolsDayNutrition(
         <<Meal("Snack", <<ToolsMealItem("celery", 1000,
                                         <<<<"protein_g", 2>>, <<"carb_g", 2>>, <<"fat_g", 2>>>>,
                                         m[1], 170)>>)>>,
         <<<<"protein_g", IF p THEN 3 ELSE 2>>, <<"carb_g", IF c THEN 3 ELSE 2>>,
           <<"fat_g", IF f THEN 3 ELSE 2>>, <<"kcal", IF k THEN 160 ELSE 170>>>> \o m[2])
        : p, c, f, k \in BOOLEAN,
          m \in {<< <<>>, <<>> >>,
                 << <<<<"iron_mg", 20>>>>, <<<<"iron_mg", 20>>>> >>,
                 << <<<<"iron_mg", 20>>>>, <<>> >>,
                 << <<<<"iron_mg", 20>>>>, <<<<"iron_mg", 50>>>> >>}}
    \cup
    {ToolsDayNutrition(
         <<Meal("Snack", <<ToolsMealItem("celery", 1000,
                                         <<<<"protein_g", 2>>, <<"carb_g", 2>>, <<"fat_g", 2>>>>,
                                         <<>>, 170)>>)>>,
         <<<<"protein_g", 2>>, <<"carb_g", 2>>, <<"kcal", 170>>>>)}

\* the function applied, its argument (and require_exact_totals), and what it
\* returned or raised
Applied(fn, arg, strict, result) ==
    [fn |-> fn, arg |-> arg, strict |-> strict, result |-> result]

OnlyApplied ==
    UNCHANGED <<day_inputs, day_results, edit_counts, raw_meal_inputs,
                daily_nutrition_summaries, call, memRet, dbRet, audit, sessions,
                chatVars>>

\* InMemoryMealBatchingService._validate_consistency(day)
ApplyMemValidateConsistency ==
    \E day \in ValidatorDays :
        /\ applied' = Applied("memory._validate_consistency", day, FALSE,
                              MemValidateConsistency(day))
        /\ OnlyApplied

\* MealBatchingService._validate_consistency(day)
ApplyDbValidateConsistency ==
    \E day \in ValidatorDays :
        /\ applied' = Applied("db._validate_consistency", day, FALSE,
                              DbValidateConsistency(day))
        /\ OnlyApplied

\* _validate_consistency(day, require_exact_totals) of the tools module
ApplyToolsValidateConsistency ==
    \E day \in ToolsDays, require_exact_totals \in BOOLEAN :
        /\ applied' = Applied("tools._validate_consistency", day, require_exact_totals,
                              ToolsValidateConsistency(day, require_exact_totals))
        /\ OnlyApplied

\* payloads: an object, a nested object, the shape of a day, an array, an array
\* holding an object, a number and a string
Payloads ==
    LET one == Json("number", "1", <<>>)
        flat == Json("object", "", <<<<"a", one>>>>)
    IN  {flat,
         Json("object", "", <<<<"a", Json("object", "", <<<<"b", one>>>>)>>>>),
         Json("object", "",
              <<<<"meals",
                  Json("array", "",
                       <<<<"", Json("object", "",
                                    <<<<"name", Json("string", "x", <<>>)>>>>)>>>>)>>,
                <<"total_protein_g", Json("number", "200", <<>>)>>>>),
         Json("array", "", <<<<"", one>>, <<"", Json("number", "2", <<>>)>>>>),
         Json("array", "", <<<<"", flat>>>>),
         one,
         Json("string", "x", <<>>)}

\* the serialized payload in a fenced block labelled json, prose before and after
FencedInProse(P, label) ==
    <<Word("Here"), Ws, Word("you"), Ws, Word("go"), Ws, Fence, Word(label), Ws>>
    \o JsonDumps(P) \o <<Ws, Fence, Ws, Word("Enjoy")>>

\* {"meals":[{"name":"x"},"total_protein_g":200}: the text of the day-shaped
\* payload without the bracket that closes the meals array
TruncatedMeals ==
    <<Punct("{"), Str("meals"), Punct(":"), Punct("["), Punct("{"), Str("name"),
      Punct(":"), Str("x"), Punct("}"), Punct(","), Str("total_protein_g"),
      Punct(":"), Num("200"), Punct("}")>>

\* what the collaborator's content can be: a serialized payload, bare, between
\* white space, in a fenced block or between words; the truncated text; a fenced
\* block after prose with braces of its own; a fenced block whose content is no
\* JSON; two objects in one sentence; a fenced block without label; texts that
\* hold no JSON
ExtractTexts ==
    LET flat == JsonDumps(Json("object", "", <<<<"a", Json("number", "1", <<>>)>>>>)) IN
    {JsonDumps(P) : P \in Payloads}
    \cup {<<Ws>> \o JsonDumps(P) \o <<Ws>> : P \in Payloads}
    \cup {FencedInProse(P, label) : P \in Payloads, label \in JsonLabels}
    \cup {<<Word("Sure"), Ws>> \o JsonDumps(P) \o <<Ws, Word("Enjoy")>> : P \in Payloads}
    \cup {TruncatedMeals,
          <<Word("use"), Ws, Punct("{"), Word("braces"), Punct("}"), Ws, Fence,
            Word("json"), Ws>> \o flat \o <<Ws, Fence>>,
          <<Fence, Word("json"), Ws, Punct("{"), Word("oops"), Punct("}"), Ws, Fence>>,
          flat \o <<Ws, Word("and"), Ws>> \o flat,
          <<Fence, Ws>> \o flat \o <<Ws, Fence>>,
          <<>>, <<Word("Sorry")>>, <<Punct("}"), Ws, Punct("{")>>}

\* candidates for DayNutrition.model_validate: a record that validates, and the
\* same record with fields changed; a day without meals; a meal without items
Candidates ==
    {DayNutrition(<<Meal("Snack", <<MealItem(n, g, p, c, f, k)>>)>>, t, c, f, k) :
        n \in {"celery", ""}, g \in {-10, 0, 1000}, p \in {-20, 20}, c \in {-20, 20},
        f \in {-20, 20}, k \in {-10, 1700}, t \in {-20, 20}}
    \cup {NoMeals, DayNutrition(<<Meal("Snack", <<>>)>>, 0, 0, 0, 0)}

\* _safe_json_extract(s)
ApplySafeJsonExtract ==
    \E s \in ExtractTexts :
        /\ applied' = Applied("_safe_json_extract", s, FALSE, SafeJsonExtract(s))
        /\ OnlyApplied

\* DayNutrition.model_validate(data): the record, or None where it raises
ApplyModelValidate ==
    \E data \in Candidates :
        /\ applied' = Applied("DayNutrition.model_validate", data, FALSE,
                              IF ModelValidateOk(data) THEN Some(data) ELSE None)
        /\ OnlyApplied

NextHelpers ==
    \/ ApplyMemValidateConsistency
    \/ ApplyDbValidateConsistency
    \/ ApplyToolsValidateConsistency
    \/ ApplySafeJsonExtract
    \/ ApplyModelValidate

SpecHelpers == Init /\ [][NextHelpers]_vars

-----------------------------------------------------------------------------
(* SpecStub: both services with StubNutritionLLM as the collaborator *)

MaxStubLogs == 3      \* log calls in one run under SpecStub

\* the three texts of test_golden_flow_three_meals
StubTexts ==
    {"I had breakfast: 2 eggs scrambled with butter and 2 slices of toast",
     "For lunch I had grilled chicken breast with brown rice and steamed broccoli",
     "Dinner was salmon fillet with quinoa and mixed vegetables"}

\* which of "breakfast", "lunch", "dinner" the lower-cased text holds
Mentions(text) ==
    CASE text = "I had breakfast: 2 eggs scrambled with butter and 2 slices of toast"
             -> {"breakfast"}
      [] text = "For lunch I had grilled chicken breast with brown rice and steamed broccoli"
             -> {"lunch"}
      [] text = "Dinner was salmon fillet with quinoa and mixed vegetables"
             -> {"dinner"}
      [] OTHER -> {}

\* self.responses of StubNutritionLLM
StubResponses(key) ==
    CASE key = "breakfast" ->
             DayNutrition(<<Meal("Breakfast", <<MealItem("Eggs", 1000, 126, 11, 90, 1550),
                                                MealItem("Toast", 600, 48, 402, 21, 2000)>>)>>,
                          174, 413, 111, 3550)
      [] key = "lunch" ->
             DayNutrition(<<Meal("Lunch", <<MealItem("Chicken Breast", 1500, 351, 0, 39, 1850),
                                            MealItem("Brown Rice", 1000, 26, 220, 9, 1100),
                                            MealItem("Broccoli", 1000, 30, 70, 4, 340)>>)>>,
                          407, 290, 52, 3290)
      [] key = "dinner" ->
             DayNutrition(<<Meal("Dinner", <<MealItem("Salmon", 2000, 420, 0, 120, 2800),
                                             MealItem("Quinoa", 1000, 44, 220, 19, 1200),
                                             MealItem("Mixed Vegetables", 1500, 45, 150, 6, 800)>>)>>,
                          509, 370, 145, 4800)
      [] OTHER ->
             DayNutrition(<<Meal("Breakfast", <<MealItem("Eggs", 1000, 126, 11, 90, 1550),
                                                MealItem("Toast", 600, 48, 402, 21, 2000)>>),
                            Meal("Lunch", <<MealItem("Chicken Breast", 1500, 351, 0, 39, 1850),
                                            MealItem("Brown Rice", 1000, 26, 220, 9, 1100)>>),
                            Meal("Dinner", <<MealItem("Salmon", 2000, 420, 0, 120, 2800),
                                             MealItem("Quinoa", 1000, 44, 220, 19, 1200)>>)>>,
                          1015, 853, 298, 10500)

\* mutant: the stub answers with the breakfast response whatever the content holds
StubGenerateBreakfast(texts) ==
    [kind |-> "json", data |-> Some(StubResponses("breakfast"))]

\* StubNutritionLLM.generate(messages) for a prompt built from these meal texts
\* (the instruction, the schema and the header of the combined text hold none of
\* the three words)
StubGenerate(texts) ==
    LET user_content == UNION {Mentions(texts[i]) : i \in 1..Len(texts)}
        key == IF {"breakfast", "lunch", "dinner"} \subseteq user_content THEN "whole_day"
               ELSE IF "breakfast" \in user_content THEN "breakfast"
               ELSE IF "lunch" \in user_content THEN "lunch"
               ELSE IF "dinner" \in user_content THEN "dinner"
               ELSE "breakfast"
    IN  [kind |-> "json", data |-> Some(StubResponses(key))]

\* a constructed record that declares 12000 kcal
Feast ==
    DayNutrition(<<Meal("Feast", <<MealItem("banquet", 50000, 5000, 10000, 5000, 120000)>>)>>,
                 5000, 10000, 5000, 120000)

StubLogQuickMeal ==
    \E text \in StubTexts :
        /\ Len(raw_meal_inputs) < MaxStubLogs
        /\ call' = Call("log", "u1", 15, text, None, None, 0)
        /\ MemLogQuickMeal("u1", 15, text)
        /\ DbLogQuickMeal("u1", 15, text)
        /\ audit' = [audit EXCEPT ![<<"u1", 15>>].mem_ids = Append(@, memRet'.meal_id)]
        /\ UNCHANGED <<sessions, applied, chatVars>>

\* process_daily_summary(user_id, target_date, StubNutritionLLM())
StubProcessDailySummary ==
    LET pending_meals == DbPendingMeals("u1", 15)
        not_called == [kind |-> "not called", data |-> None]
        mem_out == IF NoPending(day_inputs[<<"u1", 15>>]) THEN not_called
                   ELSE StubGenerate(day_inputs[<<"u1", 15>>])
        db_out == IF NoPending(pending_meals) THEN not_called
                  ELSE StubGenerate([i \in 1..Len(pending_meals) |-> pending_meals[i].raw_text])
    IN  /\ call' = Call("finalize", "u1", 15, "", None, Some(mem_out), 0)
        /\ MemProcessDailySummary("u1", 15, mem_out)
        /\ DbProcessDailySummary("u1", 15, db_out)
        /\ UNCHANGED <<audit, sessions, applied, chatVars>>

StubEditDailySummary ==
    \E edited_nutrition \in {Feast, Chicken} :
        /\ call' = Call("edit", "u1", 15, "", Some(edited_nutrition), None, 0)
        /\ MemEditDailySummary("u1", 15, edited_nutrition)
        /\ DbEditDailySummary("u1", 15, edited_nutrition)
        /\ audit' = [audit EXCEPT ![<<"u1", 15>>] =
               [mem_edits |-> IF memRet'.status = "ok" THEN @.mem_edits + 1 ELSE @.mem_edits,
                db_edits |-> IF dbRet'.status = "ok" THEN @.db_edits + 1 ELSE @.db_edits,
                mem_second |-> IF memRet'.status = "ok" /\ @.mem_edits = 1
                               THEN Some(edited_nutrition) ELSE @.mem_second,
                db_second |-> IF dbRet'.status = "ok" /\ @.db_edits = 1
                              THEN Some(edited_nutrition) ELSE @.db_second,
                mem_ids |-> @.mem_ids]]
        /\ UNCHANGED <<sessions, applied, chatVars>>

NextStub ==
    \/ StubLogQuickMeal
    \/ StubProcessDailySummary
    \/ StubEditDailySummary

SpecStub == Init /\ [][NextStub]_vars

-----------------------------------------------------------------------------
(* memory/stm.py: the in-process buffer of recent turns. A user without an  *)
(* entry in _STORE and a user with an empty deque are both the empty         *)
(* sequence. Under SpecStm add_turn is called on its own, for either user.   *)

MAX_TURNS == 12

\* add_turn calls in one run of SpecStm
MaxTurnsAdded == 14

\* mutant: the deque is created without maxlen
AddTurnUnbounded(store, user_id, role, content) ==
    [store EXCEPT ![user_id] = Append(@, <<role, content>>)]

\* add_turn(user_id, role, content): setdefault(user_id, deque(maxlen=MAX_TURNS))
\* and append; a full deque drops its leftmost element
AddTurn(store, user_id, role, content) ==
    LET q == Append(store[user_id], <<role, content>>)
    IN  [store EXCEPT ![user_id] = IF Len(q) > MAX_TURNS THEN Tail(q) ELSE q]

\* the number of add_turn calls so far
TurnsAdded == Cardinality({p \in Users \X (1..MaxTurnsAdded) : p[2] <= Len(added[p[1]])})

\* one add_turn call; the content is the number of the call, so that no two
\* turns are equal, and the roles of a user's turns alternate as in respond
StmAddTurn ==
    \E user_id \in Users :
        /\ TurnsAdded < MaxTurnsAdded
        /\ LET role == IF Len(added[user_id]) % 2 = 0 THEN "user" ELSE "assistant"
               content == ToString(TurnsAdded + 1)
           IN  /\ STORE' = AddTurn(STORE, user_id, role, content)
               /\ added' = [added EXCEPT ![user_id] = Append(@, <<role, content>>)]
        /\ UNCHANGED <<day_inputs, day_results, edit_counts, raw_meal_inputs,
                       daily_nutrition_summaries, call, memRet, dbRet, audit, sessions,
                       applied, messages, chatRet>>

SpecStm == Init /\ [][StmAddTurn]_vars

-----------------------------------------------------------------------------
(* orchestrator.py: plan and Orchestrator.respond over MealBatchingService   *)
(* and the turn buffer. TLC cannot take a string apart, so Chars lists the   *)
(* characters of every text and keyword used. The texts respond is driven    *)
(* with hold none of the whole-day indicators, so that the branch of         *)
(* parse_day_with_llm is not entered. An answer is its first line and, for   *)
(* an error, the message of the exception.                                   *)

\* respond calls in one run of SpecChat
MaxRequests == 3

\* the texts of the chat requests; the first is the one of tests/test_meal.py
ChatTexts ==
    {"Today I ate 1 lb of 90% lean ground beef, 2 cups cooked white rice, and 1 tbsp olive oil with broccoli.",
     "Daily summary please",
     "I had three eggs",
     "How much protein is in rice?",
     "hello",
     "2"}

\* the characters of a string
Chars(s) ==
    CASE s = "Today I ate 1 lb of 90% lean ground beef, 2 cups cooked white rice, and 1 tbsp olive oil with broccoli." ->
            <<"T", "o", "d", "a", "y", " ", "I", " ", "a", "t", "e", " ", "1", " ",
              "l", "b", " ", "o", "f", " ", "9", "0", "%", " ", "l", "e", "a", "n", " ",
              "g", "r", "o", "u", "n", "d", " ", "b", "e", "e", "f", ",", " ", "2", " ",
              "c", "u", "p", "s", " ", "c", "o", "o", "k", "e", "d", " ", "w", "h", "i",
              "t", "e", " ", "r", "i", "c", "e", ",", " ", "a", "n", "d", " ", "1", " ",
              "t", "b", "s", "p", " ", "o", "l", "i", "v", "e", " ", "o", "i", "l", " ",
              "w", "i", "t", "h", " ", "b", "r", "o", "c", "c", "o", "l", "i", ".">>
      [] s = "Daily summary please" ->
            <<"D", "a", "i", "l", "y", " ", "s", "u", "m", "m", "a", "r", "y", " ",
              "p", "l", "e", "a", "s", "e">>
      [] s = "I had three eggs" ->
            <<"I", " ", "h", "a", "d", " ", "t", "h", "r", "e", "e", " ", "e", "g",
              "g", "s">>
      [] s = "How much protein is in rice?" ->
            <<"H", "o", "w", " ", "m", "u", "c", "h", " ", "p", "r", "o", "t", "e",
              "i", "n", " ", "i", "s", " ", "i", "n", " ", "r", "i", "c", "e", "?">>
      [] s = "hello" -> <<"h", "e", "l", "l", "o">>
      [] s = "2" -> <<"2">>
      [] s = "daily summary" ->
            <<"d", "a", "i", "l", "y", " ", "s", "u", "m", "m", "a", "r", "y">>
      [] s = "end of day" -> <<"e", "n", "d", " ", "o", "f", " ", "d", "a", "y">>
      [] s = "process meals" ->
            <<"p", "r", "o", "c", "e", "s", "s", " ", "m", "e", "a", "l", "s">>
      [] s = "summarize today" ->
            <<"s", "u", "m", "m", "a", "r", "i", "z", "e", " ", "t", "o", "d", "a",
              "y">>
      [] s = "today's nutrition" ->
            <<"t", "o", "d", "a", "y", "'", "s", " ", "n", "u", "t", "r", "i", "t",
              "i", "o", "n">>
      [] s = "daily totals" ->
            <<"d", "a", "i", "l", "y", " ", "t", "o", "t", "a", "l", "s">>
      [] s = "process all meals" ->
            <<"p", "r", "o", "c", "e", "s", "s", " ", "a", "l", "l", " ", "m", "e",
              "a", "l", "s">>
      [] s = "1" -> <<"1">>
      [] s = "single meal" -> <<"s", "i", "n", "g", "l", "e", " ", "m", "e", "a", "l">>
      [] s = "one meal" -> <<"o", "n", "e", " ", "m", "e", "a", "l">>
      [] s = "just one meal" ->
            <<"j", "u", "s", "t", " ", "o", "n", "e", " ", "m", "e", "a", "l">>
      [] s = "single" -> <<"s", "i", "n", "g", "l", "e">>
      [] s = "one" -> <<"o", "n", "e">>
      [] s = "logging a single meal" ->
            <<"l", "o", "g", "g", "i", "n", "g", " ", "a", " ", "s", "i", "n", "g",
              "l", "e", " ", "m", "e", "a", "l">>
      [] s = "i'm logging a single meal" ->
            <<"i", "'", "m", " ", "l", "o", "g", "g", "i", "n", "g", " ", "a", " ",
              "s", "i", "n", "g", "l", "e", " ", "m", "e", "a", "l">>
      [] s = "whole day" -> <<"w", "h", "o", "l", "e", " ", "d", "a", "y">>
      [] s = "entire day" -> <<"e", "n", "t", "i", "r", "e", " ", "d", "a", "y">>
      [] s = "all meals" -> <<"a", "l", "l", " ", "m", "e", "a", "l", "s">>
      [] s = "whole day's nutrition" ->
            <<"w", "h", "o", "l", "e", " ", "d", "a", "y", "'", "s", " ", "n", "u",
              "t", "r", "i", "t", "i", "o", "n">>
      [] s = "logging my whole day" ->
            <<"l", "o", "g", "g", "i", "n", "g", " ", "m", "y", " ", "w", "h", "o",
              "l", "e", " ", "d", "a", "y">>
      [] s = "i'm logging my whole day" ->
            <<"i", "'", "m", " ", "l", "o", "g", "g", "i", "n", "g", " ", "m", "y",
              " ", "w", "h", "o", "l", "e", " ", "d", "a", "y">>
      [] s = "all my meals today" ->
            <<"a", "l", "l", " ", "m", "y", " ", "m", "e", "a", "l", "s", " ", "t",
              "o", "d", "a", "y">>
      [] s = "i had" -> <<"i", " ", "h", "a", "d">>
      [] s = "i ate" -> <<"i", " ", "a", "t", "e">>
      [] s = "breakfast:" -> <<"b", "r", "e", "a", "k", "f", "a", "s", "t", ":">>
      [] s = "lunch:" -> <<"l", "u", "n", "c", "h", ":">>
      [] s = "dinner:" -> <<"d", "i", "n", "n", "e", "r", ":">>
      [] s = "snack:" -> <<"s", "n", "a", "c", "k", ":">>
      [] s = "today i had" -> <<"t", "o", "d", "a", "y", " ", "i", " ", "h", "a", "d">>
      [] s = "for breakfast" ->
            <<"f", "o", "r", " ", "b", "r", "e", "a", "k", "f", "a", "s", "t">>
      [] s = "for lunch" -> <<"f", "o", "r", " ", "l", "u", "n", "c", "h">>
      [] s = "for dinner" -> <<"f", "o", "r", " ", "d", "i", "n", "n", "e", "r">>
      [] s = "breakfast" -> <<"b", "r", "e", "a", "k", "f", "a", "s", "t">>
      [] s = "lunch" -> <<"l", "u", "n", "c", "h">>
      [] s = "dinner" -> <<"d", "i", "n", "n", "e", "r">>
      [] s = "snack" -> <<"s", "n", "a", "c", "k">>
      [] s = "ate" -> <<"a", "t", "e">>
      [] s = "what i ate" -> <<"w", "h", "a", "t", " ", "i", " ", "a", "t", "e">>
      [] s = "macros" -> <<"m", "a", "c", "r", "o", "s">>
      [] s = "micros" -> <<"m", "i", "c", "r", "o", "s">>
      [] s = "calories" -> <<"c", "a", "l", "o", "r", "i", "e", "s">>
      [] s = "kcal" -> <<"k", "c", "a", "l">>
      [] s = "protein" -> <<"p", "r", "o", "t", "e", "i", "n">>
      [] s = "carbs" -> <<"c", "a", "r", "b", "s">>
      [] s = "fat" -> <<"f", "a", "t">>
      [] s = "meal" -> <<"m", "e", "a", "l">>
      [] s = "food" -> <<"f", "o", "o", "d">>
      [] s = "nutrition" -> <<"n", "u", "t", "r", "i", "t", "i", "o", "n">>
      [] s = "and then" -> <<"a", "n", "d", " ", "t", "h", "e", "n">>
      [] s = "also had" -> <<"a", "l", "s", "o", " ", "h", "a", "d">>

\* str.lower() on one character
Lower(c) ==
    LET upper == <<"A", "B", "C", "D", "E", "F", "G", "H", "I", "J", "K", "L", "M",
                   "N", "O", "P", "Q", "R", "S", "T", "U", "V", "W", "X", "Y", "Z">>
        lower == <<"a", "b", "c", "d", "e", "f", "g", "h", "i", "j", "k", "l", "m",
                   "n", "o", "p", "q", "r", "s", "t", "u", "v", "w", "x", "y", "z">>
    IN  IF \E i \in 1..26 : upper[i] = c
        THEN lower[CHOOSE i \in 1..26 : upper[i] = c]
        ELSE c

\* k in ql, on the characters of both
Contains(k, ql) ==
    \E i \in 1..(Len(ql) - Len(k) + 1) : \A j \in 1..Len(k) : ql[i + j - 1] = k[j]

\* any(k in q.lower() for k in keys)
AnyIn(keys, q) ==
    LET ql == [i \in 1..Len(Chars(q)) |-> Lower(Chars(q)[i])]
    IN  \E n \in 1..Len(keys) : Contains(Chars(keys[n]), ql)

\* _detect_intent(q)
DetectIntent(q) ==
    LET
        summary_keywords == <<"daily summary", "end of day", "process meals",
                              "summarize today", "today's nutrition", "daily totals",
                              "process all meals">>
        single_meal_responses == <<"1", "single meal", "one meal", "just one meal",
                                   "single", "one", "logging a single meal",
                                   "i'm logging a single meal">>
        whole_day_responses == <<"2", "whole day", "entire day", "all meals",
                                 "whole day's nutrition", "logging my whole day",
                                 "i'm logging my whole day", "all my meals today">>
        meal_data_indicators == <<"i had", "i ate", "breakfast:", "lunch:", "dinner:",
                                  "snack:", "today i had", "for breakfast", "for lunch",
                                  "for dinner">>
        nutrition_keywords == <<"breakfast", "lunch", "dinner", "snack", "ate", "i ate",
                                "what i ate", "macros", "micros", "calories", "kcal",
                                "protein", "carbs", "fat", "meal", "food", "nutrition">>
    IN  IF AnyIn(summary_keywords, q) THEN "PROCESS_DAILY_SUMMARY"
        ELSE IF AnyIn(single_meal_responses, q) THEN "LOG_SINGLE_MEAL"
        ELSE IF AnyIn(whole_day_responses, q) THEN "LOG_WHOLE_DAY"
        ELSE IF AnyIn(meal_data_indicators, q) THEN "PROCESS_MEAL_DATA"
        ELSE IF AnyIn(nutrition_keywords, q) THEN "ASK_MEAL_INTENT"
        ELSE "DEFAULT"

\* plan(query).tools
PlanTools(intent) ==
    IF intent = "PROCESS_DAILY_SUMMARY" THEN <<"daily_summary">>
    ELSE IF intent = "PROCESS_MEAL_DATA" THEN <<"meal_batching">>
    ELSE <<>>

\* is_whole_day of the PROCESS_MEAL_DATA branch
IsWholeDay(q) ==
    LET
        whole_day_indicators == <<"today i had", "breakfast:", "lunch:", "dinner:",
                                  "snack:", "for breakfast", "for lunch", "for dinner",
                                  "and then", "also had">>
    IN  AnyIn(whole_day_indicators, q)

\* the chat texts, each with what _detect_intent and the whole-day test of
\* respond make of it
Requests ==
    {[text |-> q, intent |-> DetectIntent(q), is_whole_day |-> IsWholeDay(q)] :
        q \in ChatTexts}

Answer(head, detail) == [head |-> head, detail |-> detail]

\* what llm.generate does in the default branch: it answers, with the usage it
\* reports, or raises
ChatReplies ==
    {[kind |-> "reply", content |-> "[stub] I would answer succinctly.",
      prompt_tokens |-> n, completion_tokens |-> 12] : n \in {0, 30}}
    \cup {[kind |-> "raise", content |-> "", prompt_tokens |-> 0, completion_tokens |-> 0]}

\* respond from the user turn to its return: both turns are in the buffer and in
\* the messages table, and the ChatResponse carries the plan, the tool calls, the
\* answer and the token counts
Reply(user_id, today, text, intent, tool_calls, answer, tokens_in, tokens_out, calls) ==
    /\ STORE' = AddTurn(AddTurn(STORE, user_id, "user", text),
                        user_id, "assistant", answer)
    /\ added' = [added EXCEPT ![user_id] =
                    @ \o <<(<<"user", text>>), (<<"assistant", answer>>)>>]
    /\ messages' = messages \o
           <<[id |-> Len(messages) + 1, user_id |-> user_id,
              role |-> "user", content |-> text],
             [id |-> Len(messages) + 2, user_id |-> user_id,
              role |-> "assistant", content |-> answer]>>
    /\ chatRet' = [status |-> "ok", user |-> user_id, date |-> today, text |-> text,
                   intent |-> intent, tools |-> PlanTools(intent),
                   tool_calls |-> tool_calls, answer |-> answer,
                   tokens_in |-> tokens_in, tokens_out |-> tokens_out,
                   llm_calls |-> calls]

\* respond raises out of llm.generate of the default branch, after the user turn
ReplyRaises(user_id, today, text, intent) ==
    /\ STORE' = AddTurn(STORE, user_id, "user", text)
    /\ added' = [added EXCEPT ![user_id] = Append(@, <<"user", text>>)]
    /\ messages' = Append(messages, [id |-> Len(messages) + 1, user_id |-> user_id,
                                     role |-> "user", content |-> text])
    /\ chatRet' = [NoChat EXCEPT !.status = ErrUpstream, !.user = user_id,
                                 !.date = today, !.text = text,
                                 !.intent = intent, !.tools = PlanTools(intent),
                                 !.llm_calls = 1]

DbUntouched == UNCHANGED <<raw_meal_inputs, daily_nutrition_summaries, dbRet>>

\* Orchestrator.respond(req). today is date.today() at the first call the
\* request makes to the service and later the date at process_daily_summary
Respond ==
    \E req \in Requests, user_id \in Users, today \in Dates, later \in Dates :
        /\ Len(messages) + 2 <= 2 * MaxRequests
        /\ chatRet.date <= today
        /\ today <= later
        /\ LET text == req.text
               intent == req.intent
           IN
           \/ /\ intent = "ASK_MEAL_INTENT"
              /\ later = today
              /\ DbUntouched
              /\ Reply(user_id, today, text, intent, <<>>,
                       Answer("I can help you with nutrition tracking! Are you:", <<>>),
                       0, 0, 0)
           \/ /\ intent = "LOG_SINGLE_MEAL"
              /\ later = today
              /\ DbUntouched
              /\ Reply(user_id, today, text, intent, <<>>,
                       Answer("Got it! You're logging a single meal. Please tell me what you ate.",
                              <<>>),
                       0, 0, 0)
           \/ /\ intent = "LOG_WHOLE_DAY"
              /\ later = today
              /\ DbUntouched
              /\ Reply(user_id, today, text, intent, <<>>,
                       Answer("Perfect! You're logging your whole day's nutrition.", <<>>),
                       0, 0, 0)
           \/ /\ intent = "PROCESS_MEAL_DATA"
              /\ ~req.is_whole_day
              /\ later = today
              /\ DbLogQuickMeal(user_id, today, text)
              /\ Reply(user_id, today, text, intent, <<"meal_batching">>,
                       Answer("Single meal logged successfully!", <<>>), 0, 0, 0)
           \/ /\ intent = "PROCESS_DAILY_SUMMARY"
              /\ IF NoPending(DbPendingMeals(user_id, today))
                 THEN /\ later = today
                      /\ DbGetPendingMeals(user_id, today)
                      /\ Reply(user_id, today, text, intent, <<"daily_summary">>,
                               Answer("No pending meals found for today. Log some meals first!",
                                      <<>>),
                               0, 0, 0)
                 ELSE \E out \in LlmOutputs :
                      /\ DbProcessDailySummary(user_id, later, out)
                      /\ Reply(user_id, later, text, intent, <<"daily_summary">>,
                               IF dbRet'.status = "ok"
                               THEN Answer("Daily Nutrition Summary", <<>>)
                               ELSE Answer("Error processing daily summary: ",
                                           <<dbRet'.status>>),
                               0, 0, dbRet'.llm_calls)
           \/ /\ intent = "DEFAULT"
              /\ later = today
              /\ DbUntouched
              /\ \E out \in ChatReplies :
                     IF out.kind = "raise"
                     THEN ReplyRaises(user_id, today, text, intent)
                     ELSE Reply(user_id, today, text, intent, <<>>, Answer(out.content, <<>>),
                                out.prompt_tokens, out.completion_tokens, 1)
        /\ UNCHANGED <<day_inputs, day_results, edit_counts, call, memRet, audit,
                       sessions, applied>>

SpecChat == Init /\ [][Respond]_vars

-----------------------------------------------------------------------------
(* Claims *)

CallKey == <<call.user, call.date>>

\* the edit count edit_daily_summary checks for a key of the database service
DbEditCount(k) ==
    LET summary == DbFirstSummary(k[1], k[2])
    IN  IF summary = None THEN 0 ELSE summary[1].edit_count

DbSummariesOf(k) ==
    {r \in Rows(daily_nutrition_summaries) : r.user_id = k[1] /\ r.date = k[2]}

\* C1: once two edits on a key have succeeded, every later edit on that key is
\* rejected with 'Maximum edit limit (2) reached', whatever record is supplied,
\* in both services: no key ever sees a third successful edit, and an edit that
\* fails on a key with two successful edits fails with that message.
C1_ThirdEditRejected ==
    /\ \A k \in Keys : audit[k].mem_edits <= 2 /\ audit[k].db_edits <= 2
    /\ (call.op = "edit" /\ audit[CallKey].mem_edits = 2 /\ memRet.status # "ok") =>
           memRet.status = ErrEditLimit
    /\ (call.op = "edit" /\ audit[CallKey].db_edits = 2 /\ dbRet.status # "ok") =>
           dbRet.status = ErrEditLimit

\* an edit was rejected for the limit on a key that was finalized a second time
\* after its two edits
C1_Witness ==
    /\ call.op = "edit"
    /\ memRet.status = ErrEditLimit
    /\ dbRet.status = ErrEditLimit
    /\ audit[CallKey].mem_edits = 2
    /\ audit[CallKey].db_edits = 2
    /\ Cardinality(DbSummariesOf(CallKey)) = 2

\* C2: after an edit rejected for the limit, the stored payload of the key is the
\* payload of the second successful edit and its edit count is 2.
C2_RejectedEditKeepsSecondPayload ==
    /\ (call.op = "edit" /\ memRet.status = ErrEditLimit) =>
           /\ MemDailySummary(call.user, call.date) = audit[CallKey].mem_second
           /\ edit_counts[CallKey] = 2
    /\ (call.op = "edit" /\ dbRet.status = ErrEditLimit) =>
           /\ DbDailySummary(call.user, call.date) = audit[CallKey].db_second
           /\ DbEditCount(CallKey) = 2

\* C3: the edit count of every daily summary is 0, 1 or 2.
C3_EditCountRange ==
    /\ \A k \in Keys : edit_counts[k] \in {0, 1, 2}
    /\ \A r \in Rows(daily_nutrition_summaries) : r.edit_count \in {0, 1, 2}

\* a key at the ceiling in both services on which one more edit was attempted
C3_Witness ==
    /\ call.op = "edit"
    /\ memRet.status = ErrEditLimit
    /\ edit_counts[CallKey] = 2
    /\ DbEditCount(CallKey) = 2

\* C4: an edit on a finalized key whose edit count is below 2 succeeds, stores the
\* supplied record, and raises the edit count by exactly 1 (the count of a key is
\* the number of edits that succeeded on it); afterwards get returns the supplied
\* record and history reports the new count for that date. An edit fails only on
\* a key without summary or with the count at 2.
C4_EditReplacesPayloadAndCounts ==
    /\ \A k \in Keys :
           /\ edit_counts[k] = audit[k].mem_edits
           /\ DbEditCount(k) = audit[k].db_edits
    /\ (call.op = "edit" /\ memRet.status = "ok") =>
           /\ MemDailySummary(call.user, call.date) = call.day
           /\ \E i \in 1..Len(MemMealHistory(call.user, 7)) :
                  /\ MemMealHistory(call.user, 7)[i].date = call.date
                  /\ MemMealHistory(call.user, 7)[i].nutrition = call.day[1]
                  /\ MemMealHistory(call.user, 7)[i].edit_count = audit[CallKey].mem_edits
    /\ (call.op = "edit" /\ memRet.status # "ok") =>
           \/ day_results[CallKey] = None
           \/ edit_counts[CallKey] >= 2
    /\ (call.op = "edit" /\ dbRet.status = "ok") =>
           /\ DbDailySummary(call.user, call.date) = call.day
           /\ \A history \in DbMealHistories(call.user, 7) :
                  \E i \in 1..Len(history) :
                      /\ history[i].date = call.date
                      /\ history[i].nutrition = call.day[1]
                      /\ history[i].edit_count = audit[CallKey].db_edits
    /\ (call.op = "edit" /\ dbRet.status # "ok") =>
           \/ DbSummariesOf(CallKey) = {}
           \/ DbEditCount(CallKey) >= 2

\* the second edit of a key succeeded in both services, with a record other than
\* the one stored before
C4_Witness ==
    /\ call.op = "edit"
    /\ memRet.status = "ok"
    /\ dbRet.status = "ok"
    /\ edit_counts[CallKey] = 2
    /\ DbEditCount(CallKey) = 2
    /\ audit[CallKey].mem_second = call.day
    /\ MemDailySummary(call.user, call.date) = call.day
    /\ DbDailySummary(call.user, call.date) = call.day

\* C5: process_daily_summary on a key without pending inputs raises 'No pending
\* meals found', does not call the collaborator, and leaves every stored summary,
\* edit count and input as it was.
C5_FinalizeWithoutPendingFails ==
    [][call'.op = "finalize" =>
         LET k == <<call'.user, call'.date>> IN
         /\ day_inputs[k] = <<>> =>
                /\ memRet'.status = ErrNoPending
                /\ memRet'.llm_calls = 0
                /\ UNCHANGED <<day_inputs, day_results, edit_counts>>
         /\ (\A r \in Rows(raw_meal_inputs) :
                 r.user_id = k[1] /\ r.date = k[2] => r.processed) =>
                /\ dbRet'.status = ErrNoPending
                /\ dbRet'.llm_calls = 0
                /\ UNCHANGED <<raw_meal_inputs, daily_nutrition_summaries>>]_vars

\* the call was refused on a key whose inputs had all been processed before
C5_Witness ==
    /\ call.op = "finalize"
    /\ memRet.status = ErrNoPending
    /\ dbRet.status = ErrNoPending
    /\ memRet.llm_calls = 0
    /\ dbRet.llm_calls = 0
    /\ day_results[CallKey] # None
    /\ \E r \in Rows(raw_meal_inputs) :
           r.user_id = call.user /\ r.date = call.date /\ r.processed

\* C6: right after a successful process_daily_summary on a key, get_pending_meals
\* for that key returns the empty list.
C6_NoPendingAfterFinalize ==
    /\ (call.op = "finalize" /\ memRet.status = "ok") =>
           MemPendingMeals(call.user, call.date) = <<>>
    /\ (call.op = "finalize" /\ dbRet.status = "ok") =>
           DbPendingMeals(call.user, call.date) = <<>>

\* two inputs of one key were finalized together
C6_Witness ==
    /\ call.op = "finalize"
    /\ memRet.status = "ok"
    /\ dbRet.status = "ok"
    /\ \E r \in DbSummariesOf(CallKey) : Len(r.raw_input_ids) = 2

\* C7: every successful process_daily_summary leaves the key with an edit count of
\* 0, so that two edits are available after it.
C7_FinalizeLeavesEditCountZero ==
    /\ (call.op = "finalize" /\ memRet.status = "ok") => edit_counts[CallKey] = 0
    /\ (call.op = "finalize" /\ dbRet.status = "ok") => DbEditCount(CallKey) = 0

\* C8: there is at most one daily summary per (user, date) key.
C8_OneSummaryPerKey ==
    \A k \in Keys : Cardinality(DbSummariesOf(k)) <= 1

\* C9: the stored record of a finalized key changes only through a successful
\* edit of that key.
C9_PayloadChangesOnlyByEdit ==
    [][\A k \in Keys :
         /\ (day_results[k] # None /\ day_results'[k] # day_results[k]) =>
                call'.op = "edit" /\ <<call'.user, call'.date>> = k /\ memRet'.status = "ok"
         /\ (DbSummariesOf(k) # {} /\ DbDailySummary(k[1], k[2])' # DbDailySummary(k[1], k[2])) =>
                call'.op = "edit" /\ <<call'.user, call'.date>> = k /\ dbRet'.status = "ok"]_vars

\* C10: a process_daily_summary call that finds n >= 1 pending inputs (it gets past
\* the 'No pending meals found' check) calls llm.generate exactly once, whatever n
\* is; log, pending, get, history and edit never call it.
C10_OneCollaboratorCall ==
    /\ call.op = "finalize" =>
           /\ memRet.llm_calls = IF memRet.status = ErrNoPending THEN 0 ELSE 1
           /\ dbRet.llm_calls = IF dbRet.status = ErrNoPending THEN 0 ELSE 1
    /\ call.op \in {"log", "pending", "get", "history", "edit"} =>
           memRet.llm_calls = 0 /\ dbRet.llm_calls = 0

\* a call that found two pending inputs made one collaborator call, which failed
C10_Witness ==
    /\ call.op = "finalize"
    /\ memRet.status = ErrNotJson
    /\ dbRet.status = ErrNotJson
    /\ memRet.llm_calls = 1
    /\ dbRet.llm_calls = 1
    /\ Len(MemPendingMeals(call.user, call.date)) = 2
    /\ Len(DbPendingMeals(call.user, call.date)) = 2

\* C11: a key that already has a daily summary is never sent to the collaborator
\* again (so that at most one collaborator call per key belongs to a successful
\* process_daily_summary), and edit_daily_summary makes no collaborator call.
C11_OneCollaboratorCallPerKey ==
    [][/\ call'.op = "finalize" =>
            LET k == <<call'.user, call'.date>> IN
            /\ day_results[k] # None => memRet'.llm_calls = 0
            /\ DbSummariesOf(k) # {} => dbRet'.llm_calls = 0
       /\ call'.op = "edit" => memRet'.llm_calls = 0 /\ dbRet'.llm_calls = 0]_vars

\* the collaborator raised, or answered something that is not JSON, or answered a
\* record that DayNutrition.model_validate rejects
CollaboratorFailed(out) ==
    \/ out.kind \in {"raise", "garbage"}
    \/ out.kind = "json" /\ ~ModelValidateOk(out.data[1])

\* C12: a process_daily_summary call that fails after it read the pending inputs
\* (the collaborator raises, its answer cannot be parsed, or the parsed record is
\* rejected) raises, marks no input processed and creates or changes no summary:
\* the pending list of the key is what it was before the call.
C12_FailedFinalizeChangesNothing ==
    [][\A u \in Users, d \in Dates :
         (/\ call'.op = "finalize"
          /\ call'.user = u
          /\ call'.date = d
          /\ CollaboratorFailed(call'.out[1])) =>
             /\ memRet'.status \in {ErrUpstream, ErrNotJson, ErrValidation, ErrNoPending}
             /\ dbRet'.status \in {ErrUpstream, ErrNotJson, ErrValidation, ErrNoPending}
             /\ UNCHANGED <<day_inputs, day_results, edit_counts,
                            raw_meal_inputs, daily_nutrition_summaries>>
             /\ MemPendingMeals(u, d)' = MemPendingMeals(u, d)
             /\ DbPendingMeals(u, d)' = DbPendingMeals(u, d)]_vars

\* the collaborator's record was rejected on a key that has a summary and one
\* pending input, which is still pending
C12_Witness ==
    /\ call.op = "finalize"
    /\ memRet.status = ErrValidation
    /\ dbRet.status = ErrValidation
    /\ memRet.llm_calls = 1
    /\ day_results[CallKey] # None
    /\ DbSummariesOf(CallKey) # {}
    /\ Len(MemPendingMeals(call.user, call.date)) = 1
    /\ Len(DbPendingMeals(call.user, call.date)) = 1

\* the ids of the inputs a summary row was computed from
RawInputIds(r) == {r.raw_input_ids[i] : i \in 1..Len(r.raw_input_ids)}

\* C13: when process_daily_summary calls of separate sessions overlap on a key,
\* no two of them succeed on the same pending inputs: an input contributes to at
\* most one daily summary.
C13_NoDoubleFinalize ==
    \A r1, r2 \in Rows(daily_nutrition_summaries) :
        r1.id # r2.id => RawInputIds(r1) \cap RawInputIds(r2) = {}

\* C14: under every interleaving of edit_daily_summary calls of separate sessions
\* on a key, at most 2 edits of the key succeed.
C14_AtMostTwoEditsSucceed ==
    \A k \in Keys : audit[k].db_edits <= 2

\* the rows of raw_meal_inputs of a key
DbInputsOf(k) ==
    {r \in Rows(raw_meal_inputs) : r.user_id = k[1] /\ r.date = k[2]}

\* C15: a log_quick_meal, process_daily_summary or edit_daily_summary call on one
\* key, whether it succeeds or fails, leaves the inputs, the pending list, the
\* summary and the edit count of every other key as they were, in both services.
C15_KeyIsolation ==
    [][\A k \in Keys :
         (call'.op \in {"log", "finalize", "edit"} /\ <<call'.user, call'.date>> # k) =>
             /\ day_inputs'[k] = day_inputs[k]
             /\ day_results'[k] = day_results[k]
             /\ edit_counts'[k] = edit_counts[k]
             /\ DbInputsOf(k)' = DbInputsOf(k)
             /\ DbPendingMeals(k[1], k[2])' = DbPendingMeals(k[1], k[2])
             /\ DbSummariesOf(k)' = DbSummariesOf(k)]_vars

\* an edit succeeded on one date of a user while another date of the same user
\* had a pending input
C15_Witness ==
    /\ call.op = "edit"
    /\ memRet.status = "ok"
    /\ dbRet.status = "ok"
    /\ \E k \in Keys :
           /\ k # CallKey
           /\ k[1] = call.user
           /\ day_inputs[k] # <<>>
           /\ DbPendingMeals(k[1], k[2]) # <<>>

\* C16: edit_daily_summary on a key without daily summary (with or without pending
\* inputs) raises 'No daily summary found' and changes nothing: no summary is
\* created, no edit is counted and the inputs are untouched.
C16_EditWithoutSummaryFails ==
    [][\A k \in Keys :
         (call'.op = "edit" /\ <<call'.user, call'.date>> = k) =>
             /\ day_results[k] = None =>
                    /\ memRet'.status = ErrNoSummary
                    /\ UNCHANGED <<day_inputs, day_results, edit_counts>>
                    /\ audit'[k].mem_edits = audit[k].mem_edits
             /\ DbSummariesOf(k) = {} =>
                    /\ dbRet'.status = ErrNoSummary
                    /\ UNCHANGED <<raw_meal_inputs, daily_nutrition_summaries>>
                    /\ audit'[k].db_edits = audit[k].db_edits]_vars

\* the edit was refused on a key with a pending input and no summary, while
\* another date of the user has a summary
C16_Witness ==
    /\ call.op = "edit"
    /\ memRet.status = ErrNoSummary
    /\ dbRet.status = ErrNoSummary
    /\ day_inputs[CallKey] # <<>>
    /\ DbPendingMeals(call.user, call.date) # <<>>
    /\ day_results[CallKey] = None
    /\ DbSummariesOf(CallKey) = {}
    /\ \E k \in Keys : k[1] = call.user /\ DbSummariesOf(k) # {}

Min(a, b) == IF a <= b THEN a ELSE b

\* C17: get_meal_history(user, limit) returns entries of that user's daily
\* summaries only, one entry per finalized date, most recent date first, cut to
\* the limit, each with the record and the current edit count of its date.
C17_HistoryOnePerDateDescending ==
    call.op = "history" =>
        LET u == call.user
            memDates == {k[2] : k \in {q \in Keys : q[1] = u /\ day_results[q] # None}}
            dbDates == {r.date : r \in {q \in Rows(daily_nutrition_summaries) : q.user_id = u}}
            mh == memRet.history
            dh == dbRet.history
        IN  /\ Len(mh) = Min(call.days, Cardinality(memDates))
            /\ \A i \in 1..Len(mh) :
                   /\ mh[i].date \in memDates
                   /\ mh[i].nutrition = day_results[<<u, mh[i].date>>][1]
                   /\ mh[i].edit_count = edit_counts[<<u, mh[i].date>>]
                   /\ \A j \in 1..Len(mh) : i < j => mh[i].date > mh[j].date
                   /\ \A d \in memDates : d > mh[i].date => \E j \in 1..Len(mh) : mh[j].date = d
            /\ Len(dh) = Min(call.days, Cardinality(dbDates))
            /\ \A i \in 1..Len(dh) :
                   /\ dh[i].date \in dbDates
                   /\ Some(dh[i].nutrition) = DbDailySummary(u, dh[i].date)
                   /\ dh[i].edit_count = DbEditCount(<<u, dh[i].date>>)
                   /\ \A j \in 1..Len(dh) : i < j => dh[i].date > dh[j].date
                   /\ \A d \in dbDates : d > dh[i].date => \E j \in 1..Len(dh) : dh[j].date = d

\* the rows of a key that are not processed, in the order of the log calls
UnprocessedOf(k) ==
    SelectSeq(raw_meal_inputs,
              LAMBDA r : r.user_id = k[1] /\ r.date = k[2] /\ ~r.processed)

\* C18: get_pending_meals(user, date) returns exactly the inputs of that key that
\* are not processed yet, in the order in which they were logged.
C18_PendingInLogOrder ==
    call.op = "pending" =>
        /\ dbRet.pending = UnprocessedOf(CallKey)
        /\ memRet.pending = [i \in 1..Len(UnprocessedOf(CallKey)) |->
                                UnprocessedOf(CallKey)[i].raw_text]

\* two inputs with different texts are pending on the key and both are returned
C18_Witness ==
    /\ call.op = "pending"
    /\ Len(memRet.pending) = 2
    /\ Len(dbRet.pending) = 2
    /\ memRet.pending[1] # memRet.pending[2]
    /\ dbRet.pending[1].raw_text = memRet.pending[1]
    /\ dbRet.pending[2].raw_text = memRet.pending[2]

\* C19: get_daily_summary returns None for a key on which no process_daily_summary
\* has succeeded, and otherwise the record stored last for the key by a successful
\* process_daily_summary or edit_daily_summary: right after such a call it is the
\* record that call returned.
C19_GetReturnsLastStored ==
    /\ \A k \in Keys :
           /\ day_results[k] = None => MemDailySummary(k[1], k[2]) = None
           /\ DbSummariesOf(k) = {} => DbDailySummary(k[1], k[2]) = None
    /\ (call.op \in {"finalize", "edit"} /\ memRet.status = "ok") =>
           MemDailySummary(call.user, call.date) = memRet.day
    /\ (call.op \in {"finalize", "edit"} /\ dbRet.status = "ok") =>
           DbDailySummary(call.user, call.date) = dbRet.day

\* a declared total of the record is not the sum of its items
TotalsDiffer(day) ==
    \/ day.total_protein_g # SumMeals(day.meals, "protein_g")
    \/ day.total_carb_g # SumMeals(day.meals, "carb_g")
    \/ day.total_fat_g # SumMeals(day.meals, "fat_g")
    \/ day.total_kcal # SumMeals(day.meals, "kcal")

\* C20: a process_daily_summary call whose collaborator answers a well-formed
\* record with declared totals that differ from the sums of its items succeeds,
\* stores the record and returns the mismatch as warnings.
C20_MismatchIsWarningNotError ==
    (/\ call.op = "finalize"
     /\ call.out[1].kind = "json"
     /\ DayFieldsOk(call.out[1].data[1])
     /\ TotalsDiffer(call.out[1].data[1])) =>
        /\ memRet.status # ErrNoPending =>
               /\ memRet.status = "ok"
               /\ memRet.day = call.out[1].data
               /\ day_results[CallKey] = call.out[1].data
               /\ memRet.warnings # <<>>
        /\ dbRet.status # ErrNoPending =>
               /\ dbRet.status = "ok"
               /\ dbRet.day = call.out[1].data
               /\ dbRet.warnings # <<>>

\* every declared total is within 0.1 g (1 kcal for energy) of the sum of the items
WithinConstructionTolerance(day) ==
    /\ Abs(day.total_protein_g - SumMeals(day.meals, "protein_g")) <= 1
    /\ Abs(day.total_carb_g - SumMeals(day.meals, "carb_g")) <= 1
    /\ Abs(day.total_fat_g - SumMeals(day.meals, "fat_g")) <= 1
    /\ Abs(day.total_kcal - SumMeals(day.meals, "kcal")) <= 10

\* C21: every day record in the system (stored, returned by process_daily_summary,
\* accepted by edit_daily_summary, read back by get_daily_summary or
\* get_meal_history) has each declared total within 0.1 g, 1 kcal for energy, of
\* the sum over its items; a collaborator record outside that is rejected.
C21_RecordsWithinConstructionTolerance ==
    /\ \A k \in Keys : day_results[k] # None => WithinConstructionTolerance(day_results[k][1])
    /\ \A r \in Rows(daily_nutrition_summaries) :
           /\ ModelValidateJson(r.payload_json) # None
           /\ WithinConstructionTolerance(ModelValidateJson(r.payload_json)[1])
    /\ memRet.day # None => WithinConstructionTolerance(memRet.day[1])
    /\ dbRet.day # None => WithinConstructionTolerance(dbRet.day[1])
    /\ \A i \in 1..Len(memRet.history) : WithinConstructionTolerance(memRet.history[i].nutrition)
    /\ \A i \in 1..Len(dbRet.history) : WithinConstructionTolerance(dbRet.history[i].nutrition)
    /\ (call.op = "edit" /\ (memRet.status = "ok" \/ dbRet.status = "ok")) =>
           WithinConstructionTolerance(call.day[1])
    /\ (/\ call.op = "finalize"
        /\ call.out[1].kind = "json"
        /\ ~WithinConstructionTolerance(call.out[1].data[1])) =>
           /\ memRet.status \in {ErrValidation, ErrNoPending}
           /\ dbRet.status \in {ErrValidation, ErrNoPending}

\* a record whose declared protein is a tenth of a gram off the sum was stored by
\* process_daily_summary and read back
C21_Witness ==
    /\ call.op = "get"
    /\ memRet.day = Some(Trace)
    /\ dbRet.day = Some(Trace)
    /\ TotalsDiffer(Trace)

\* the nutrients of a record whose declared total is not within 5% of the sum of
\* the items, as the names of their warnings
OutsideFivePercent(day) ==
    {w \in {"Protein total mismatch", "Carb total mismatch", "Fat total mismatch",
            "Calorie total mismatch"} :
        LET field == CASE w = "Protein total mismatch" -> "protein_g"
                       [] w = "Carb total mismatch" -> "carb_g"
                       [] w = "Fat total mismatch" -> "fat_g"
                       [] OTHER -> "kcal"
            a == day["total_" \o field]
            b == SumMeals(day.meals, field)
        IN  a # b /\ 20 * Abs(a - b) > Max(Abs(a), Abs(b))}

\* C22: process_daily_summary of both services returns a warning for a nutrient
\* exactly when the declared total is not within 5% relative tolerance of the sum
\* of the items (equal values always pass).
C22_WarningExactlyOutsideFivePercent ==
    /\ (call.op = "finalize" /\ memRet.status = "ok") =>
           {memRet.warnings[i].text : i \in 1..Len(memRet.warnings)}
               = OutsideFivePercent(memRet.day[1])
    /\ (call.op = "finalize" /\ dbRet.status = "ok") =>
           {dbRet.warnings[i].text : i \in 1..Len(dbRet.warnings)}
               = OutsideFivePercent(dbRet.day[1])

\* the place of a warning's nutrient in the order protein, carb, fat, kcal; 0 for
\* a warning about a micronutrient
NutrientRank(text) ==
    CASE text \in {"Protein total mismatch", "totals.protein_g mismatch"} -> 1
      [] text \in {"Carb total mismatch", "totals.carb_g mismatch"} -> 2
      [] text \in {"Fat total mismatch", "totals.fat_g mismatch"} -> 3
      [] text \in {"Calorie total mismatch", "totals.kcal mismatch"} -> 4
      [] OTHER -> 0

\* the warnings the validator applied last returned (none where it raised)
AppliedWarnings ==
    IF applied.fn \in {"memory._validate_consistency", "db._validate_consistency"}
    THEN applied.result
    ELSE IF applied.fn = "tools._validate_consistency" /\ applied.result.status = "ok"
    THEN applied.result.warnings[1]
    ELSE <<>>

ToolsOutsideFivePercent(day) ==
    {key \in {"protein_g", "carb_g", "fat_g", "kcal"} :
        LET a == Get(day.totals, key, 0)
            b == Get(AccMeals(<<>>, day.meals), key, 0)
        IN  a # b /\ 20 * Abs(a - b) > Max(Abs(a), Abs(b))}

C25_ExtractorAttemptsInOrder ==
    applied.fn = "_safe_json_extract" =>
        LET s == Strip(applied.arg)
            \* the one sample the repair applies to, with the bracket put back
            repaired == IF s = TruncatedMeals
                        THEN JsonLoads(SubSeq(s, 1, 9) \o <<Punct("]")>> \o SubSeq(s, 10, Len(s)))
                        ELSE None
            opens == {a \in 1..(Len(s) - 1) :
                         /\ s[a] = Fence
                         /\ s[a + 1].t = "word"
                         /\ s[a + 1].v \in JsonLabels
                         /\ \E b \in (a + 2)..Len(s) : s[b] = Fence}
            fenced == IF opens = {} THEN None
                      ELSE LET a == CHOOSE x \in opens : \A y \in opens : x <= y
                               b == CHOOSE x \in (a + 2)..Len(s) :
                                        s[x] = Fence /\ \A y \in (a + 2)..(x - 1) : s[y] # Fence
                           IN  JsonLoads(SubSeq(s, a + 2, b - 1))
            i == Find(s, Punct("{"))
            j == RFind(s, Punct("}"))
            braces == IF i # -1 /\ j > i THEN JsonLoads(SubSeq(s, i, j)) ELSE None
            first == IF JsonLoads(s) # None THEN JsonLoads(s)
                     ELSE IF repaired # None THEN repaired
                     ELSE IF fenced # None THEN fenced
                     ELSE braces
        IN  IF first = None THEN applied.result.status # "ok"
            ELSE applied.result = ExtractResult("ok", first)

\* C26: the text of a day whose meals array lacks its closing bracket before the
\* totals key is repaired by _safe_json_extract: it returns the day, the array
\* closed.
C26_TruncatedArrayRepaired ==
    (applied.fn = "_safe_json_extract" /\ applied.arg = TruncatedMeals) =>
        /\ applied.result.status = "ok"
        /\ applied.result.value =
               JsonLoads(SubSeq(TruncatedMeals, 1, 9) \o <<Punct("]")>>
                         \o SubSeq(TruncatedMeals, 10, Len(TruncatedMeals)))

\* C27: for every payload, object, array or scalar, _safe_json_extract of its
\* serialization in a fenced block labelled json between prose returns the payload.
C27_FencedRoundTrip ==
    \A P \in Payloads, label \in JsonLabels :
        (applied.fn = "_safe_json_extract" /\ applied.arg = FencedInProse(P, label)) =>
            applied.result = ExtractResult("ok", Some(P))

\* a candidate with an empty meals list, a meal without items, an item with an
\* empty name or with grams <= 0, or a negative nutrient or declared total
BadShape(data) ==
    \/ data.meals = <<>>
    \/ \E m \in 1..Len(data.meals) :
           \/ data.meals[m].items = <<>>
           \/ \E i \in 1..Len(data.meals[m].items) :
                  LET it == data.meals[m].items[i] IN
                  \/ it.name = ""
                  \/ it.grams <= 0
                  \/ it.protein_g < 0 \/ it.carb_g < 0 \/ it.fat_g < 0 \/ it.kcal < 0
    \/ data.total_protein_g < 0 \/ data.total_carb_g < 0
    \/ data.total_fat_g < 0 \/ data.total_kcal < 0

\* C28: DayNutrition.model_validate raises for every candidate with an empty meals
\* list, a meal without items, an item with an empty name or grams <= 0, or a
\* negative protein, carb, fat, kcal or declared total.
C28_BadShapeRejected ==
    (applied.fn = "DayNutrition.model_validate" /\ BadShape(applied.arg)) =>
        applied.result = None

\* C29: an edit with a record that declares more than 10000 kcal is not rejected
\* for it: it fails only on a key without summary or with two edits done, and
\* otherwise succeeds, the record is stored, the edit count goes up by one (it is
\* the number of edits that succeeded) and the warnings returned hold 'Unusually
\* high calorie count', in both services.
C29_HighCalorieEditFlagged ==
    (call.op = "edit" /\ call.day[1].total_kcal > 100000) =>
        /\ memRet.status # "ok" =>
               \/ memRet.status = ErrNoSummary /\ day_results[CallKey] = None
               \/ memRet.status = ErrEditLimit /\ edit_counts[CallKey] >= 2
        /\ memRet.status = "ok" =>
               /\ day_results[CallKey] = call.day
               /\ edit_counts[CallKey] = audit[CallKey].mem_edits
               /\ edit_counts[CallKey] >= 1
               /\ \E i \in 1..Len(memRet.warnings) :
                      memRet.warnings[i].text = "Unusually high calorie count"
        /\ dbRet.status # "ok" =>
               \/ dbRet.status = ErrNoSummary /\ DbSummariesOf(CallKey) = {}
               \/ dbRet.status = ErrEditLimit /\ DbEditCount(CallKey) >= 2
        /\ dbRet.status = "ok" =>
               /\ DbDailySummary(call.user, call.date) = call.day
               /\ DbEditCount(CallKey) = audit[CallKey].db_edits
               /\ DbEditCount(CallKey) >= 1
               /\ \E i \in 1..Len(dbRet.warnings) :
                      dbRet.warnings[i].text = "Unusually high calorie count"

\* the first edit of a finalized key, with the 12000 kcal record, succeeded in both
\* services with the warning
C29_Witness ==
    /\ call.op = "edit"
    /\ call.day = Some(Feast)
    /\ memRet.status = "ok" /\ dbRet.status = "ok"
    /\ edit_counts[CallKey] = 1 /\ DbEditCount(CallKey) = 1
    /\ day_results[CallKey] = Some(Feast)
    /\ memRet.warnings = <<Warning("Unusually high calorie count", 120000, 0)>>
    /\ dbRet.warnings = memRet.warnings

\* the golden flow's pending texts in the order logged, and the text the in-memory
\* service combines them into
GoldenTexts ==
    <<CHOOSE t \in StubTexts : Mentions(t) = {"breakfast"},
      CHOOSE t \in StubTexts : Mentions(t) = {"lunch"},
      CHOOSE t \in StubTexts : Mentions(t) = {"dinner"}>>

GoldenPrompt ==
    "Here are all my meals for today:\n\nMeal 1: " \o GoldenTexts[1]
    \o "\n\nMeal 2: " \o GoldenTexts[2] \o "\n\nMeal 3: " \o GoldenTexts[3]

\* C30: process_daily_summary with the stub on a key whose pending texts are the
\* breakfast, the lunch and the dinner text, in that order, returns a record with
\* exactly 3 meals and total_kcal within 5% of 1050 and no warnings, stores it, and
\* calls the collaborator once, with the three texts combined into one.
C30_GoldenFlow ==
    [][(/\ call'.op = "finalize"
        /\ day_inputs[<<"u1", 15>>] = GoldenTexts
        /\ [i \in 1..Len(DbPendingMeals("u1", 15)) |-> DbPendingMeals("u1", 15)[i].raw_text]
               = GoldenTexts) =>
           /\ memRet'.status = "ok"
           /\ Len(memRet'.day[1].meals) = 3
           /\ 20 * Abs(memRet'.day[1].total_kcal - 10500) <= 10500
           /\ memRet'.warnings = <<>>
           /\ day_results'[<<"u1", 15>>] = memRet'.day
           /\ memRet'.llm_calls = 1
           /\ memRet'.prompt = Some(GoldenPrompt)
           /\ dbRet'.status = "ok"
           /\ Len(dbRet'.day[1].meals) = 3
           /\ 20 * Abs(dbRet'.day[1].total_kcal - 10500) <= 10500
           /\ dbRet'.warnings = <<>>
           /\ dbRet'.llm_calls = 1
           /\ dbRet'.prompt = Some(DbCombineMealTexts(DbPendingMeals("u1", 15)))]_vars

\* the three texts were finalized: both services returned the three-meal day
C30_Witness ==
    /\ call.op = "finalize"
    /\ memRet.status = "ok" /\ dbRet.status = "ok"
    /\ memRet.prompt = Some(GoldenPrompt)
    /\ Len(memRet.day[1].meals) = 3
    /\ memRet.day[1].total_kcal = 10500
    /\ dbRet.day = memRet.day
    /\ day_results[<<"u1", 15>>] = memRet.day

\* C32: run side by side on the same calls with the same collaborator responses,
\* the two services give the same outcome for every call: both succeed or both
\* raise the same error, they return the same record, the same warnings, the same
\* pending texts and the same history, and they hold the same stored record and
\* the same edit count for every key.
C32_ServicesAgree ==
    /\ memRet.status = dbRet.status
    /\ memRet.day = dbRet.day
    /\ memRet.warnings = dbRet.warnings
    /\ memRet.pending = [i \in 1..Len(dbRet.pending) |-> dbRet.pending[i].raw_text]
    /\ memRet.history = dbRet.history
    /\ \A k \in Keys :
           /\ MemDailySummary(k[1], k[2]) = DbDailySummary(k[1], k[2])
           /\ edit_counts[k] = DbEditCount(k)

\* the rows of raw_meal_inputs whose processed column differs between the two
\* states of a step
FlippedRows ==
    {i \in 1..Len(raw_meal_inputs) :
        raw_meal_inputs'[i].processed # raw_meal_inputs[i].processed}

\* C33: after a successful process_daily_summary of the database service the new
\* summary row lists, as raw_input_ids, exactly the ids of the inputs that were
\* pending for the key when the call started, in their order, and exactly those
\* rows (no row of this or of any other key besides them) went from unprocessed
\* to processed.
C33_SummaryListsItsInputs ==
    [][(call'.op = "finalize" /\ dbRet'.status = "ok") =>
          LET k == <<call'.user, call'.date>>
              pending == UnprocessedOf(k)
              n == Len(daily_nutrition_summaries)
          IN  /\ Len(daily_nutrition_summaries') = n + 1
              /\ SubSeq(daily_nutrition_summaries', 1, n) = daily_nutrition_summaries
              /\ daily_nutrition_summaries'[n + 1].raw_input_ids =
                     [i \in 1..Len(pending) |-> ToString(pending[i].id)]
              /\ Len(raw_meal_inputs') = Len(raw_meal_inputs)
              /\ FlippedRows = {i \in 1..Len(raw_meal_inputs) :
                                   \E j \in 1..Len(pending) :
                                       pending[j].id = raw_meal_inputs[i].id}
              /\ \A i \in FlippedRows :
                     ~raw_meal_inputs[i].processed /\ raw_meal_inputs'[i].processed
    ]_vars

\* a finalize over two pending inputs wrote a summary that lists both
C33_Witness ==
    /\ call.op = "finalize"
    /\ dbRet.status = "ok"
    /\ Len(daily_nutrition_summaries) > 0
    /\ Len(daily_nutrition_summaries[Len(daily_nutrition_summaries)].raw_input_ids) = 2
    /\ \A i \in 1..Len(raw_meal_inputs) : raw_meal_inputs[i].processed

\* a step keeps every row of raw_meal_inputs, with its id, key and text, and
\* moves a processed column only from false to true, in a successful
\* process_daily_summary of the row's key
DbRowsKept ==
    /\ Len(raw_meal_inputs') >= Len(raw_meal_inputs)
    /\ \A i \in 1..Len(raw_meal_inputs) :
           LET r == raw_meal_inputs[i]
               q == raw_meal_inputs'[i]
           IN  /\ q.id = r.id /\ q.user_id = r.user_id /\ q.date = r.date
               /\ q.raw_text = r.raw_text
               /\ r.processed => q.processed
               /\ q.processed # r.processed =>
                      /\ call'.op = "finalize"
                      /\ dbRet'.status = "ok"
                      /\ <<call'.user, call'.date>> = <<r.user_id, r.date>>

\* a step keeps every text the in-memory service holds, in its place
MemTextsKept ==
    \A k \in Keys :
        /\ Len(day_inputs[k]) <= Len(day_inputs'[k])
        /\ SubSeq(day_inputs'[k], 1, Len(day_inputs[k])) = day_inputs[k]

\* the database half of C34 on its own
C34_DbRowsKept == [][DbRowsKept]_vars

\* C34: an input, once logged, is never deleted and its text never changes, and
\* its processed flag moves only from false to true, in a successful finalize of
\* its own key: the rows of raw_meal_inputs stay as they are but for that flag,
\* and the list of texts the in-memory service holds for a key only grows at its
\* end.
C34_InputsNeverDeleted == [][DbRowsKept /\ MemTextsKept]_vars

\* C35: log_quick_meal always returns normally, and the id it returns differs
\* from the id every earlier log_quick_meal call on the same key returned, also
\* with a process_daily_summary in between, in both services; on a key without
\* earlier logs the in-memory service returns 0, 1, 2, ... and the database
\* service increasing ids.
C35_LogIdsDistinct ==
    [][call'.op = "log" =>
          LET k == <<call'.user, call'.date>>
              earlier == audit[k].mem_ids
          IN  /\ memRet'.status = "ok"
              /\ dbRet'.status = "ok"
              /\ \A i \in 1..Len(earlier) : memRet'.meal_id # earlier[i]
              /\ \A r \in DbInputsOf(k) : dbRet'.meal_id > r.id
              /\ (\A r \in DbInputsOf(k) : ~r.processed) => memRet'.meal_id = Len(earlier)
    ]_vars

\* C36: a key that has a daily summary keeps one through every later call,
\* successful or failed; a summary appears on a key only in a successful
\* process_daily_summary of that key, which always leaves one; and an
\* edit_daily_summary succeeds only on a key that has a summary, hence after a
\* successful process_daily_summary of that key. In both services.
C36_FinalizedIsAbsorbing ==
    [][LET key == <<call'.user, call'.date>>
           After(k) == {r \in Rows(daily_nutrition_summaries') :
                           r.user_id = k[1] /\ r.date = k[2]}
       IN
       /\ \A k \in Keys :
              /\ day_results[k] # None => day_results'[k] # None
              /\ DbSummariesOf(k) # {} => After(k) # {}
              /\ (day_results[k] = None /\ day_results'[k] # None) =>
                     call'.op = "finalize" /\ memRet'.status = "ok" /\ key = k
              /\ (DbSummariesOf(k) = {} /\ After(k) # {}) =>
                     call'.op = "finalize" /\ dbRet'.status = "ok" /\ key = k
       /\ (call'.op = "finalize" /\ memRet'.status = "ok") => day_results'[key] # None
       /\ (call'.op = "finalize" /\ dbRet'.status = "ok") => After(key) # {}
       /\ (call'.op = "edit" /\ memRet'.status = "ok") => day_results[key] # None
       /\ (call'.op = "edit" /\ dbRet'.status = "ok") => DbSummariesOf(key) # {}
    ]_vars

\* a key with a summary that was edited, on which a later process_daily_summary
\* failed: the summary is still there in both services
C36_Witness ==
    /\ call.op = "finalize"
    /\ memRet.status # "ok"
    /\ dbRet.status # "ok"
    /\ audit[CallKey].mem_edits >= 1
    /\ audit[CallKey].db_edits >= 1
    /\ day_results[CallKey] # None
    /\ DbSummariesOf(CallKey) # {}

\* C37: every process_daily_summary of the database service that returns
\* normally returns an empty list of warnings: the record it returns has passed
\* model_post_init, whose four comparisons are those of _validate_consistency.
C37_DbFinalizeNeverWarns ==
    (call.op = "finalize" /\ dbRet.status = "ok") => dbRet.warnings = <<>>

\* the database service finalized a record whose totals differ from the sums of
\* its items, within the tolerance of model_post_init, and returned no warning
C37_Witness ==
    /\ call.op = "finalize"
    /\ dbRet.status = "ok"
    /\ TotalsDiffer(dbRet.day[1])
    /\ dbRet.warnings = <<>>

\* C38: after any sequence of add_turn calls every user's buffer holds at most
\* MAX_TURNS = 12 turns, and they are the most recent turns added for that user,
\* in the order they were added (the oldest are evicted first); no turn added
\* for one user is in the buffer of another.
C38_StmBounded ==
    \A u \in Users :
        /\ Len(STORE[u]) <= 12
        /\ STORE[u] = IF Len(added[u]) <= 12 THEN added[u]
                      ELSE SubSeq(added[u], Len(added[u]) - 11, Len(added[u]))
        /\ \A v \in Users \ {u} :
               \A i \in 1..Len(STORE[u]), j \in 1..Len(added[v]) :
                   STORE[u][i] # added[v][j]

\* a user with 13 turns added holds the last 12, the other user holds its own
C38_Witness ==
    \E u, v \in Users :
        /\ u # v
        /\ Len(added[u]) = 13
        /\ Len(STORE[u]) = 12
        /\ STORE[u][1] = added[u][2]
        /\ Len(STORE[v]) = 1

\* the request of tests/test_meal.py
FreeFormText ==
    "Today I ate 1 lb of 90% lean ground beef, 2 cups cooked white rice, and 1 tbsp olive oil with broccoli."

\* C31: a chat request whose text is a free-form description of food eaten gets
\* a response whose plan has the intent LOG_MEAL_FREEFORM and exactly the tools
\* nutrition_parse and nutrition_estimate, in that order, and whose token counts
\* are not negative.
C31_FreeFormMealPlan ==
    (chatRet.status # "none" /\ chatRet.text = FreeFormText) =>
        /\ chatRet.status = "ok"
        /\ chatRet.intent = "LOG_MEAL_FREEFORM"
        /\ chatRet.tools = <<"nutrition_parse", "nutrition_estimate">>
        /\ chatRet.tokens_in >= 0
        /\ chatRet.tokens_out >= 0

\* C39: respond on a request classified PROCESS_DAILY_SUMMARY always returns a
\* ChatResponse (no error of the batching service leaves it) and records the
\* answer as the user's latest assistant turn, in the buffer and in the
\* messages table. With nothing pending for the key the collaborator is not
\* invoked and no row is written; an error of process_daily_summary becomes the
\* answer 'Error processing daily summary: ' followed by its message, with the
\* tables as they were; the summary answer is given only when a summary row
\* was written.
C39_DailySummaryNeverRaises ==
    [][(messages' # messages /\ chatRet'.intent = "PROCESS_DAILY_SUMMARY") =>
          LET u == chatRet'.user
              answer == chatRet'.answer
              unchanged == /\ raw_meal_inputs' = raw_meal_inputs
                           /\ daily_nutrition_summaries' = daily_nutrition_summaries
          IN  /\ chatRet'.status = "ok"
              /\ chatRet'.tool_calls = <<"daily_summary">>
              /\ STORE'[u][Len(STORE'[u])] = <<"assistant", answer>>
              /\ messages'[Len(messages')].role = "assistant"
              /\ messages'[Len(messages')].user_id = u
              /\ messages'[Len(messages')].content = answer
              /\ UnprocessedOf(<<u, chatRet'.date>>) = <<>> =>
                     /\ chatRet'.llm_calls = 0
                     /\ unchanged
                     /\ answer.head # "Daily Nutrition Summary"
              /\ answer.head = "Error processing daily summary: " =>
                     /\ dbRet'.status # "ok"
                     /\ answer.detail = <<dbRet'.status>>
                     /\ unchanged
              /\ answer.head = "Daily Nutrition Summary" <=> ~unchanged
    ]_vars

\* a daily-summary request whose collaborator answered no JSON: the error is the
\* answer, it is the user's latest turn, and the meal is still pending
C39_Witness ==
    /\ chatRet.status = "ok"
    /\ chatRet.intent = "PROCESS_DAILY_SUMMARY"
    /\ chatRet.answer.head = "Error processing daily summary: "
    /\ chatRet.answer.detail = <<ErrNotJson>>
    /\ STORE[chatRet.user][Len(STORE[chatRet.user])] = <<"assistant", chatRet.answer>>
    /\ UnprocessedOf(<<chatRet.user, chatRet.date>>) # <<>>
    /\ daily_nutrition_summaries = <<>>

====
